---- MODULE Spec2Model ----
(***************************************************************************)
(* Model of hyperate-overlay: the reconnecting WebSocket client            *)
(* (websocket_client.py), the sample callback (main.py), the rolling       *)
(* window with its per-day log (stats_analyzer.py) and the values the       *)
(* overlay shows (ui.py).                                                   *)
(*                                                                         *)
(* Time is counted in half days, so a timestamp ts lies on date ts \div 2. *)
(* Python's None is NoDate / NoHandle; a str is a sequence of one-char     *)
(* strings.                                                                *)
(***************************************************************************)
EXTENDS Integers, Sequences, FiniteSets, TLC

VARIABLES
  \* HeartRateStats (stats_analyzer.py)
  data_queue,          \* deque(maxlen=max_memory_size) of data points
  current_date,        \* date the handle was last bound to, NoDate = None
  file_handle,         \* date of the file the open handle appends to, NoHandle = None
  files,               \* the log directory: date -> [exists, lines]
  open_handles,        \* the files that have an open file object (a handle is
                       \* named by the date of its file)
  data_lock,           \* thread holding self.data_lock, NoThread: free
  tpc,                 \* thread -> its position in the HeartRateStats call it runs
  tloc,                \* thread -> the arguments and locals of that call
  \* HeartRateUI (ui.py)
  current, max_hr, min_hr, heart_rate_history,
  \* WebSocketClient (websocket_client.py)
  pc,                  \* position of websocket_loop / websocket_handler
  ws_connected, message_ref, websocket_key,
  hb,                  \* position of the send_heartbeat task
  hbCancel,            \* heartbeat_task.cancel() was requested
  exc,                 \* exception in flight through the finally clause
  \* environment
  now,                 \* wall clock, in half days
  sock,                \* the connection: "none", "open", "closedOK", "closedErr"
  inbox,               \* frames received by the connection, not yet iterated
  keySeq,              \* number of keys the page has served
  events,              \* environment events so far
  \* history (observations only, never read by the program)
  added,               \* every sample add_heart_rate appended, in order
  opLog,               \* every call on HeartRateStats so far, with what it did
  nframes,             \* frames delivered to the client so far
  naccepted,           \* frames delivered whose payload.hr Python's int() accepts
  session,             \* number of websocket_handler invocations so far
  exitKind,            \* how the last websocket_handler invocation ended
  delay,               \* seconds slept since the last invocation ended
  failures,            \* consecutive invocations that ended with an exception
  hbOwner,             \* session that created the heartbeat task
  lastSent,            \* last outbound frame
  frameLog,            \* every frame iterated so far, with what it did
  ncalls,              \* calls threads made on HeartRateStats so far
  handleRace,          \* what threads did to the log handle against each other
  join_message,        \* ref of the join_message built and in websocket.send, 0: none
  heartbeat_message,   \* ref of the heartbeat_message built and in websocket.send, 0: none
  nfetch,              \* requests fetch_websocket_key made so far
  calcLog,             \* the last call of calculate_stats or _interpret_trend, after
                       \* the one before it when both had the same argument
  \* HyperateTripleOverlay (main.py, config.py)
  main_pc,             \* position of the main thread
  ws_thread,           \* WebSocketClient.start() has started the websocket_loop thread
  HYPERATE_URL,        \* config["HYPERATE_URL"], a sequence of characters
  channel_id,          \* WebSocketClient.channel_id, NoChannel = None
  nupdates             \* update_heart_rate calls made on a HeartRateUI by itself

statsVars == <<data_queue, current_date, file_handle, files, open_handles, added, opLog>>
threadVars == <<data_lock, tpc, tloc, ncalls, handleRace>>
calcVars == <<calcLog>>
sendVars == <<join_message, heartbeat_message, nfetch>>
appVars == <<main_pc, ws_thread, HYPERATE_URL, channel_id, nupdates>>
uiVars == <<current, max_hr, min_hr, heart_rate_history>>
clientVars == <<pc, ws_connected, message_ref, websocket_key, hb, hbCancel, exc>>
envVars == <<sock, inbox, keySeq, events>>
histVarsButLog == <<nframes, naccepted, session, exitKind, delay, failures, hbOwner, lastSent>>
histVars == <<nframes, naccepted, session, exitKind, delay, failures, hbOwner, lastSent, frameLog>>
vars == <<statsVars, threadVars, calcVars, sendVars, appVars, uiVars, clientVars, envVars, histVars,
          now>>

\* ---------------------------------------------------------------- bounds
MaxFrames == 2        \* frames the server delivers in a run
MaxAdds == 3          \* direct add_heart_rate calls in a run
MaxCalls == 3         \* calls threads make on HeartRateStats in a run
MaxOps == 3           \* calls on HeartRateStats in a run of calls
MaxEvents == 2        \* environment events in a run: failures, closes, timer
                      \* expiries, disk errors, half days passing
max_memory_size == 2  \* HeartRateStats(max_memory_size=...), 10000 by default

NoDate == -1
NoHandle == -1

DateOf(ts) == ts \div 2
Dates == 0..DateOf(MaxEvents + 2)

\* ------------------------------------------------------- Python built-ins
Digits == <<"0", "1", "2", "3", "4", "5", "6", "7", "8", "9">>

DigitVal(c) == (CHOOSE i \in 1..10 : Digits[i] = c) - 1

IsDigit(c) == \E i \in 1..10 : Digits[i] = c

RECURSIVE DigitsValue(_)
DigitsValue(s) ==
  IF s = <<>> THEN 0
  ELSE 10 * DigitsValue(SubSeq(s, 1, Len(s) - 1)) + DigitVal(s[Len(s)])

RECURSIVE Strip(_)
Strip(s) ==
  IF s = <<>> THEN s
  ELSE IF Head(s) = " " THEN Strip(Tail(s))
  ELSE IF s[Len(s)] = " " THEN Strip(SubSeq(s, 1, Len(s) - 1))
  ELSE s

\* str(n) of an int
RECURSIVE PyStr(_)
PyStr(n) ==
  IF n < 0 THEN <<"-">> \o PyStr(0 - n)
  ELSE IF n < 10 THEN <<Digits[n + 1]>>
  ELSE PyStr(n \div 10) \o <<Digits[(n % 10) + 1]>>

\* JSON values of payload.hr: t is the Python type json.loads gives,
\* n the number (a float in tenths, a bool as 0/1), s the text of a str
IntV(n) == [t |-> "int", n |-> n, s |-> <<>>]
FloatV(tenths) == [t |-> "float", n |-> tenths, s |-> <<>>]
StrV(s) == [t |-> "str", n |-> 0, s |-> s]
BoolV(b) == [t |-> "bool", n |-> IF b THEN 1 ELSE 0, s |-> <<>>]
NullV == [t |-> "NoneType", n |-> 0, s |-> <<>>]

Ok(n) == [ok |-> TRUE, v |-> n, err |-> "none"]
Raise(e) == [ok |-> FALSE, v |-> 0, err |-> e]

\* int(s) of a str: surrounding blanks stripped, an optional sign, digits
PyIntOfStr(s) ==
  LET b == Strip(s)
      signed == b # <<>> /\ Head(b) \in {"+", "-"}
      d == IF signed THEN Tail(b) ELSE b
  IN IF d # <<>> /\ \A i \in 1..Len(d) : IsDigit(d[i])
     THEN Ok(IF signed /\ Head(b) = "-" THEN 0 - DigitsValue(d) ELSE DigitsValue(d))
     ELSE Raise("ValueError")

\* int(x): bool is a subclass of int, a float is truncated toward zero,
\* None raises TypeError
PyInt(x) ==
  CASE x.t = "int" -> Ok(x.n)
    [] x.t = "bool" -> Ok(x.n)
    [] x.t = "float" -> Ok(IF x.n >= 0 THEN x.n \div 10 ELSE 0 - ((0 - x.n) \div 10))
    [] x.t = "str" -> PyIntOfStr(x.s)
    [] OTHER -> Raise("TypeError")

\* not x
PyNot(x) ==
  CASE x.t \in {"int", "bool", "float"} -> x.n = 0
    [] x.t = "str" -> x.s = <<>>
    [] OTHER -> TRUE

Min(a, b) == IF a < b THEN a ELSE b

Last(q) == q[Len(q)]

\* the last k elements of q
Suffix(q, k) == SubSeq(q, Len(q) - k + 1, Len(q))

SeqMax(s) == CHOOSE m \in {s[i] : i \in 1..Len(s)} : \A i \in 1..Len(s) : s[i] <= m
SeqMin(s) == CHOOSE m \in {s[i] : i \in 1..Len(s)} : \A i \in 1..Len(s) : m <= s[i]

\* ------------------------------------------------ HeartRateStats: the log
Header == [hdr |-> TRUE, timestamp |-> 0, heart_rate |-> 0]
Row(ts, hr) == [hdr |-> FALSE, timestamp |-> ts, heart_rate |-> hr]
NoFile == [exists |-> FALSE, lines |-> <<>>]

\* open(path, "a"): creates the file when it does not exist
OpenAppend(fs, d) ==
  IF fs[d].exists THEN fs ELSE [fs EXCEPT ![d] = [exists |-> TRUE, lines |-> <<>>]]

WriteLineAtTop(fs, d, line) ==
  IF fs[d].exists THEN [fs EXCEPT ![d].lines = <<line>> \o @] ELSE fs

\* file_handle.write(line); flush()
WriteLine(fs, d, line) ==
  IF fs[d].exists THEN [fs EXCEPT ![d].lines = Append(@, line)] ELSE fs

\* a mistaken rebinding that drops the old handle without closing it
CloseLeaks(hs, h) == hs

\* file_handle.close() where "if self.file_handle" holds
Close(hs, h) == hs \ {h}

\* _init_log_file: st is [current_date, file_handle, files, open_handles]
InitLogFile(st, today, openFails) ==
  IF st.current_date # today
  THEN IF openFails
       THEN [st EXCEPT !.current_date = today, !.file_handle = NoHandle,
                       !.open_handles = Close(@, st.file_handle)]
       ELSE LET existed == st.files[today].exists
                opened == OpenAppend(st.files, today)
            IN [current_date |-> today,
                file_handle |-> today,
                files |-> IF existed THEN opened ELSE WriteLine(opened, today, Header),
                open_handles |-> Close(st.open_handles, st.file_handle) \cup {today}]
  ELSE st

EnsureNeverRotates(st, ts, openFails) == st

\* a mistaken check that also opens a file whenever no handle is bound
EnsureReopensUnbound(st, ts, openFails) ==
  LET file_date == DateOf(ts)
  IN IF file_date # st.current_date \/ st.file_handle = NoHandle
     THEN IF openFails
          THEN [st EXCEPT !.current_date = file_date, !.file_handle = NoHandle,
                          !.open_handles = Close(@, st.file_handle)]
          ELSE [current_date |-> file_date,
                file_handle |-> file_date,
                files |-> OpenAppend(st.files, file_date),
                open_handles |-> Close(st.open_handles, st.file_handle) \cup {file_date}]
     ELSE st

\* _ensure_correct_log_file
EnsureCorrectLogFile(st, ts, openFails) ==
  LET file_date == DateOf(ts)
  IN IF file_date # st.current_date
     THEN IF openFails
          THEN [st EXCEPT !.current_date = file_date, !.file_handle = NoHandle,
                          !.open_handles = Close(@, st.file_handle)]
          ELSE [current_date |-> file_date,
                file_handle |-> file_date,
                files |-> OpenAppend(st.files, file_date),
                open_handles |-> Close(st.open_handles, st.file_handle) \cup {file_date}]
     ELSE st

\* deque.append on a deque with maxlen
DequeAppendEvictNewest(q, x, maxlen) ==
  IF Len(q) >= maxlen THEN q ELSE Append(q, x)

DequeAppend(q, x, maxlen) ==
  LET q2 == Append(q, x)
  IN IF Len(q2) > maxlen THEN Tail(q2) ELSE q2

DataPoint(ts, hr) == [timestamp |-> ts, heart_rate |-> hr]

\* what a call returns: nothing, or a list. alias: the list is the window's
\* own sequence object (a live view) and not a new list holding items
NoResult == [alias |-> FALSE, items |-> <<>>]

\* an opLog entry. before/handle: the bound handle when the call began and
\* when it returned; openFailed, writeFailed: an open or a write of the
\* call failed; wrote: the call wrote its row; raised: the call raised
OpEntry(op, ts, hr, before, handle, wrote, openFailed, writeFailed, raised, result, minutes) ==
  [op |-> op, ts |-> ts, hr |-> hr, before |-> before, handle |-> handle,
   wrote |-> wrote, openFailed |-> openFailed, writeFailed |-> writeFailed,
   raised |-> raised, result |-> result, minutes |-> minutes]

AddHeartRateOpenErrorEscapes(st, hr, ts, openFails, writeFails) ==
  IF openFails /\ DateOf(ts) # st.current_date
  THEN [st EXCEPT !.opLog =
          Append(@, OpEntry("add", ts, hr, st.file_handle, st.file_handle, FALSE,
                            TRUE, FALSE, TRUE, NoResult, 0))]
  ELSE
    LET lg == EnsureCorrectLogFile(
                [current_date |-> st.current_date, file_handle |-> st.file_handle,
                 files |-> st.files, open_handles |-> st.open_handles],
                ts, openFails)
    IN [data_queue |-> DequeAppend(st.data_queue, DataPoint(ts, hr), max_memory_size),
        current_date |-> lg.current_date,
        file_handle |-> lg.file_handle,
        files |-> IF lg.file_handle # NoHandle /\ ~writeFails
                  THEN WriteLine(lg.files, lg.file_handle, Row(ts, hr))
                  ELSE lg.files,
        open_handles |-> lg.open_handles,
        added |-> Append(st.added, DataPoint(ts, hr)),
        opLog |-> Append(st.opLog,
                    OpEntry("add", ts, hr, st.file_handle, lg.file_handle,
                            lg.file_handle # NoHandle /\ ~writeFails,
                            openFails /\ DateOf(ts) # st.current_date,
                            writeFails /\ lg.file_handle # NoHandle,
                            FALSE, NoResult, 0))]

\* add_heart_rate(heart_rate, timestamp) on the stats state st
\* [data_queue, current_date, file_handle, files, added]
AddHeartRate(st, hr, ts, openFails, writeFails) ==
  LET lg == EnsureCorrectLogFile(
              [current_date |-> st.current_date, file_handle |-> st.file_handle,
               files |-> st.files, open_handles |-> st.open_handles],
              ts, openFails)
  IN [data_queue |-> DequeAppend(st.data_queue, DataPoint(ts, hr), max_memory_size),
      current_date |-> lg.current_date,
      file_handle |-> lg.file_handle,
      files |-> IF lg.file_handle # NoHandle /\ ~writeFails
                THEN WriteLine(lg.files, lg.file_handle, Row(ts, hr))
                ELSE lg.files,
      open_handles |-> lg.open_handles,
      added |-> Append(st.added, DataPoint(ts, hr)),
      opLog |-> Append(st.opLog,
                  OpEntry("add", ts, hr, st.file_handle, lg.file_handle,
                          lg.file_handle # NoHandle /\ ~writeFails,
                          openFails /\ DateOf(ts) # st.current_date,
                          writeFails /\ lg.file_handle # NoHandle,
                          FALSE, NoResult, 0))]

\* os.remove of every heart_rate_*.csv of the data directory (251-258)
RemoveNoLogFile(fs) == fs

RemoveLogFiles(fs) == [d \in DOMAIN fs |-> NoFile]

\* clear_data() at time tnow
ClearData(st, tnow, openFails) ==
  LET lg == InitLogFile(
              [current_date |-> st.current_date, file_handle |-> NoHandle,
               files |-> RemoveLogFiles(st.files),
               open_handles |-> Close(st.open_handles, st.file_handle)],
              DateOf(tnow), openFails)
  IN [data_queue |-> <<>>,
      current_date |-> lg.current_date,
      file_handle |-> lg.file_handle,
      files |-> lg.files,
      open_handles |-> lg.open_handles,
      added |-> st.added,
      opLog |-> Append(st.opLog,
                  OpEntry("clear", tnow, 0, st.file_handle, lg.file_handle, FALSE,
                          openFails /\ DateOf(tnow) # st.current_date, FALSE,
                          FALSE, NoResult, 0))]

LiveView(q) == [alias |-> TRUE, items |-> q]

\* list(self.data_queue): a new list
AllList(q) == [alias |-> FALSE, items |-> q]

\* get_all_data()
GetAllData(st, tnow) ==
  [st EXCEPT !.opLog = Append(@, OpEntry("all", tnow, 0, st.file_handle, st.file_handle,
                                         FALSE, FALSE, FALSE, FALSE,
                                         AllList(st.data_queue), 0))]

\* a tick of the model's clock is half a day
SecondsPerTick == 12 * 60 * 60

\* point["timestamp"] >= time.time() - (minutes * 60), in seconds
AfterCutoff(ts, tnow, minutes) ==
  ts * SecondsPerTick > tnow * SecondsPerTick - minutes * 60

AtOrAfterCutoff(ts, tnow, minutes) ==
  ts * SecondsPerTick >= tnow * SecondsPerTick - minutes * 60

\* [point for point in self.data_queue if ...]: a new list
RecentList(q, tnow, minutes) ==
  [alias |-> FALSE,
   items |-> SelectSeq(q, LAMBDA point : AtOrAfterCutoff(point.timestamp, tnow, minutes))]

\* get_recent_data(minutes) at time tnow
GetRecentData(st, tnow, minutes) ==
  [st EXCEPT !.opLog =
     Append(@, OpEntry("recent", tnow, 0, st.file_handle, st.file_handle,
                       FALSE, FALSE, FALSE, FALSE,
                       RecentList(st.data_queue, tnow, minutes), minutes))]

\* ------------------------------------- HeartRateStats: calculate_stats
\* Numbers with decimals are counted in the unit of their rounding: avg and
\* duration_minutes in tenths, std_dev in hundredths, trend_slope in
\* thousandths. A float that is not rounded (the slope) is the fraction
\* [num, den] it stands for, with den > 0.

\* sum(s)
RECURSIVE Sum(_)
Sum(s) == IF s = <<>> THEN 0 ELSE Head(s) + Sum(Tail(s))

\* sorted(s): a new list, ascending
RECURSIVE Sorted(_)
Sorted(s) ==
  IF s = <<>> THEN <<>>
  ELSE LET m == SeqMin(s)
           i == CHOOSE k \in 1..Len(s) : s[k] = m
       IN <<m>> \o Sorted(SubSeq(s, 1, i - 1) \o SubSeq(s, i + 1, Len(s)))

\* floor(a * b / d) for a, b >= 0 and d > 0, the product never formed
MulDiv(a, b, d) == (a \div d) * b + ((a % d) * b) \div d

\* round(num / den) to an integer, den > 0: a tie goes to the even
\* neighbour, as Python's round does when the float holds the tie exactly
RoundHalfEven(num, den) ==
  LET q == num \div den
      r == num % den
  IN IF 2 * r < den THEN q
     ELSE IF 2 * r > den THEN q + 1
     ELSE IF q % 2 = 0 THEN q ELSE q + 1

\* floor(n ** 0.5), between lo and hi
RECURSIVE ISqrtBetween(_, _, _)
ISqrtBetween(n, lo, hi) ==
  IF lo >= hi THEN lo
  ELSE LET mid == (lo + hi + 1) \div 2
       IN IF mid * mid <= n THEN ISqrtBetween(n, mid, hi)
          ELSE ISqrtBetween(n, lo, mid - 1)

\* 46340 is the largest integer whose square is below 2^31
ISqrt(n) == ISqrtBetween(n, 0, 46340)

\* round(q ** 0.5) for the fraction q = num * scale / den
RoundSqrt(num, scale, den) == (ISqrt(MulDiv(num, 4 * scale, den)) + 1) \div 2

\* [point["heart_rate"] for point in data_points], and the timestamps
HeartRatesOf(data_points) == [i \in 1..Len(data_points) |-> data_points[i].heart_rate]
TimestampsOf(data_points) == [i \in 1..Len(data_points) |-> data_points[i].timestamp]

\* list(range(n))
Range(n) == [i \in 1..n |-> i - 1]

Fraction(num, den) == [num |-> num, den |-> den]

\* _calculate_slope(x, y): 0 when the denominator is 0
CalculateSlope(x, y) ==
  LET n == Len(x)
      sum_x == Sum(x)
      sum_y == Sum(y)
      sum_xy == Sum([i \in 1..Min(Len(x), Len(y)) |-> x[i] * y[i]])
      sum_x2 == Sum([i \in 1..n |-> x[i] * x[i]])
      denominator == n * sum_x2 - sum_x * sum_x
  IN IF denominator = 0 THEN Fraction(0, 1)
     ELSE Fraction(n * sum_xy - sum_x * sum_y, denominator)

\* slope > bound and slope < bound for the bound p / q, q > 0
Above(slope, p, q) == slope.num * q > p * slope.den
Below(slope, p, q) == slope.num * q < p * slope.den

\* a mistaken _interpret_trend, the boundary values in the stronger class
InterpretTrendInclusive(slope) ==
  IF ~Below(slope, 1, 2) THEN "rising"
  ELSE IF ~Above(slope, -1, 2) THEN "falling"
  ELSE IF ~Below(slope, 1, 10) THEN "slowly rising"
  ELSE IF ~Above(slope, -1, 10) THEN "slowly falling"
  ELSE "stable"

\* _interpret_trend(slope): the five labels of lines 322-330, named in English
InterpretTrend(slope) ==
  IF Above(slope, 1, 2) THEN "rising"
  ELSE IF Below(slope, -1, 2) THEN "falling"
  ELSE IF Above(slope, 1, 10) THEN "slowly rising"
  ELSE IF Below(slope, -1, 10) THEN "slowly falling"
  ELSE "stable"

\* a mistaken "low" bucket that takes 60 as well
RangesLowTakesSixty(heart_rates) ==
  LET Count(P(_)) == Len(SelectSeq(heart_rates, P))
  IN [very_low |-> Count(LAMBDA hr : hr < 50),
      low |-> Count(LAMBDA hr : 50 <= hr /\ hr <= 60),
      normal |-> Count(LAMBDA hr : 60 <= hr /\ hr < 100),
      elevated |-> Count(LAMBDA hr : 100 <= hr /\ hr < 140),
      high |-> Count(LAMBDA hr : hr >= 140)]

\* the "ranges" dict
Ranges(heart_rates) ==
  LET Count(P(_)) == Len(SelectSeq(heart_rates, P))
  IN [very_low |-> Count(LAMBDA hr : hr < 50),
      low |-> Count(LAMBDA hr : 50 <= hr /\ hr < 60),
      normal |-> Count(LAMBDA hr : 60 <= hr /\ hr < 100),
      elevated |-> Count(LAMBDA hr : 100 <= hr /\ hr < 140),
      high |-> Count(LAMBDA hr : hr >= 140)]

NoRanges == [very_low |-> 0, low |-> 0, normal |-> 0, elevated |-> 0, high |-> 0]

\* a stats dict: keys is the set of its keys, a key that is absent has the
\* value of NoStats
NoStats == [keys |-> {}, count |-> 0, min |-> 0, max |-> 0, avg |-> 0, median |-> 0,
            std_dev |-> 0, duration_seconds |-> 0, duration_minutes |-> 0,
            ranges |-> NoRanges, trend_slope |-> 0, trend |-> "none"]

BasicKeys == {"count", "min", "max", "avg", "median", "std_dev", "duration_seconds",
              "duration_minutes", "ranges"}
TrendKeys == {"trend_slope", "trend"}

\* a mistaken line 221, the trend left out for exactly 10 samples
HasTrendAbove(n) == n > 10

\* line 221: len(heart_rates) >= 10
HasTrend(n) == n >= 10

\* a mistaken line 191, the lower middle element for an even count
MedianLower(heart_rates) == Sorted(heart_rates)[(Len(heart_rates) + 1) \div 2]

\* line 191: sorted(heart_rates)[len(heart_rates) // 2], indices from 0
Median(heart_rates) == Sorted(heart_rates)[(Len(heart_rates) \div 2) + 1]

\* lines 196-200 with mean = stats["avg"]: the deviations are taken from
\* the rounded mean, avg in tenths
StdDev(heart_rates, avg) ==
  LET n == Len(heart_rates)
      squares == Sum([i \in 1..n |-> (10 * heart_rates[i] - avg) * (10 * heart_rates[i] - avg)])
  IN RoundSqrt(squares, 100, n - 1)

\* a mistaken line 222, the first 10 samples
OldestTen(heart_rates) == SubSeq(heart_rates, 1, 10)

\* line 222: heart_rates[-10:]
LastTen(heart_rates) == Suffix(heart_rates, Min(10, Len(heart_rates)))

\* the dict calculate_stats returns for a list of data points
StatsOf(data_points) ==
  IF data_points = <<>> THEN NoStats
  ELSE
    LET heart_rates == HeartRatesOf(data_points)
        timestamps == TimestampsOf(data_points)
        n == Len(heart_rates)
        avg == RoundHalfEven(10 * Sum(heart_rates), n)
        time_span == SeqMax(timestamps) - SeqMin(timestamps)
        basic == [NoStats EXCEPT
                    !.keys = BasicKeys,
                    !.count = n,
                    !.min = SeqMin(heart_rates),
                    !.max = SeqMax(heart_rates),
                    !.avg = avg,
                    !.median = Median(heart_rates),
                    !.std_dev = IF n > 1 THEN StdDev(heart_rates, avg) ELSE 0,
                    !.duration_seconds = time_span * SecondsPerTick,
                    !.duration_minutes = RoundHalfEven(10 * time_span * SecondsPerTick, 60),
                    !.ranges = Ranges(heart_rates)]
    IN IF HasTrend(n)
       THEN LET recent_data == LastTen(heart_rates)
                slope == CalculateSlope(Range(Len(recent_data)), recent_data)
            IN [basic EXCEPT !.keys = BasicKeys \cup TrendKeys,
                             !.trend_slope = RoundHalfEven(1000 * slope.num, slope.den),
                             !.trend = InterpretTrend(slope)]
       ELSE basic

\* a mistaken calculate_stats that sorts the list it was given
CalculateStatsSortsInput(st, data_points) ==
  [st |-> st, result |-> StatsOf(data_points),
   data_points |-> SortSeq(data_points, LAMBDA a, b : a.heart_rate < b.heart_rate)]

\* calculate_stats(data_points) on the object st: the dict it returns, the
\* caller's list and the object when it has returned. It reads its argument
\* only and touches no attribute of self
CalculateStats(st, data_points) ==
  [st |-> st, result |-> StatsOf(data_points), data_points |-> data_points]

StatsState == [data_queue |-> data_queue, current_date |-> current_date,
               file_handle |-> file_handle, files |-> files,
               open_handles |-> open_handles, added |-> added,
               opLog |-> opLog]

ApplyStats(r) ==
  /\ data_queue' = r.data_queue
  /\ current_date' = r.current_date
  /\ file_handle' = r.file_handle
  /\ files' = r.files
  /\ open_handles' = r.open_handles
  /\ added' = r.added
  /\ opLog' = r.opLog

\* ------------------------------------------------------------ HeartRateUI
max_history_size == 100
Dashes == <<"-", "-">>

\* a mistaken update_heart_rate without lines 245-246: nothing leaves the
\* history
UiUpdateKeepsAll(ui, x) ==
  IF PyNot(x) THEN ui
  ELSE LET r == PyInt(x)
       IN IF r.ok
          THEN LET h == Append(ui.heart_rate_history, r.v)
               IN [current |-> PyStr(r.v), max_hr |-> PyStr(SeqMax(h)),
                   min_hr |-> PyStr(SeqMin(h)), heart_rate_history |-> h]
          ELSE ui

\* update_heart_rate(heart_rate, update_display): ui is
\* [current, max_hr, min_hr, heart_rate_history]
UiUpdateHeartRate(ui, x) ==
  IF PyNot(x) THEN ui
  ELSE LET r == PyInt(x)
       IN IF r.ok
          THEN LET h1 == Append(ui.heart_rate_history, r.v)
                   h == IF Len(h1) > max_history_size THEN Tail(h1) ELSE h1
               IN [current |-> PyStr(r.v), max_hr |-> PyStr(SeqMax(h)),
                   min_hr |-> PyStr(SeqMin(h)), heart_rate_history |-> h]
          ELSE ui  \* ValueError: pass (a TypeError needs a truthy non-str, non-number)

UiState == [current |-> current, max_hr |-> max_hr, min_hr |-> min_hr,
            heart_rate_history |-> heart_rate_history]

ApplyUi(u) ==
  /\ current' = u.current
  /\ max_hr' = u.max_hr
  /\ min_hr' = u.min_hr
  /\ heart_rate_history' = u.heart_rate_history

\* ------------------------------ HyperateTripleOverlay.update_heart_rate_callback
\* update_heart_rate_callback(x) at time ts on stats state st and ui state ui.
\* The result: the stats state, the ui state, and whether the call raised
\* (a TypeError of int() is not caught at line 51).
CallbackAddsTwice(st, ui, x, ts, openFails, writeFails) ==
  LET r == PyInt(x)
  IN IF r.ok
     THEN [stats |-> AddHeartRate(AddHeartRate(st, r.v, ts, openFails, writeFails),
                                  r.v, ts, openFails, writeFails),
           ui |-> UiUpdateHeartRate(ui, x), raised |-> FALSE]
     ELSE IF r.err = "ValueError"
     THEN [stats |-> st, ui |-> UiUpdateHeartRate(ui, x), raised |-> FALSE]
     ELSE [stats |-> st, ui |-> ui, raised |-> TRUE]

UpdateHeartRateCallback(st, ui, x, ts, openFails, writeFails) ==
  LET r == PyInt(x)
  IN IF r.ok
     THEN [stats |-> AddHeartRate(st, r.v, ts, openFails, writeFails),
           ui |-> UiUpdateHeartRate(ui, x), raised |-> FALSE]
     ELSE IF r.err = "ValueError"
     THEN [stats |-> st, ui |-> UiUpdateHeartRate(ui, x), raised |-> FALSE]
     ELSE [stats |-> st, ui |-> ui, raised |-> TRUE]

\* --------------------------------------------------------- inbound frames
\* shape: "nonjson" (json.loads raises JSONDecodeError), "scalar" (a JSON
\* number: "payload" in data raises TypeError), "nohr" (an object without
\* payload.hr, such as the join reply), "hr" (an object with payload.hr = hr)
Frame(shape, hr) == [shape |-> shape, hr |-> hr]

SampleFrames ==
  {Frame("hr", v) : v \in {IntV(72), StrV(<<"7", "5">>), IntV(0), BoolV(TRUE),
                           NullV, StrV(<<"a", "b">>)}}

Frames == {Frame("nonjson", NullV), Frame("nohr", NullV)} \cup SampleFrames

\* a mistaken loop body without "except Exception": the exception of the
\* membership test or of the callback leaves the loop
HandleJsonErrorEscapes(st, ui, f, ts, openFails, writeFails) ==
  CASE f.shape = "scalar" -> [stats |-> st, ui |-> ui, out |-> "raise"]
    [] f.shape = "nohr" -> [stats |-> st, ui |-> ui, out |-> "ignored"]
    [] OTHER ->
         LET c == UpdateHeartRateCallback(st, ui, f.hr, ts, openFails, writeFails)
         IN [stats |-> c.stats, ui |-> c.ui,
             out |-> IF c.raised THEN "raise" ELSE "called"]

\* lines 124-126 and 129-130: a frame json.loads parsed.
\* out: "ignored" (no callback), "called" (the callback returned),
\* "error" (an exception reached line 129 and was printed)
HandleJson(st, ui, f, ts, openFails, writeFails) ==
  CASE f.shape = "scalar" -> [stats |-> st, ui |-> ui, out |-> "error"]
    [] f.shape = "nohr" -> [stats |-> st, ui |-> ui, out |-> "ignored"]
    [] OTHER ->
         LET c == UpdateHeartRateCallback(st, ui, f.hr, ts, openFails, writeFails)
         IN [stats |-> c.stats, ui |-> c.ui,
             out |-> IF c.raised THEN "error" ELSE "called"]

\* lines 122-130, the body of "async for message in websocket": what one
\* frame does; out "raise": an exception leaves the loop
HandleMessageFatalDecode(st, ui, f, ts, openFails, writeFails) ==
  IF f.shape = "nonjson"
  THEN [stats |-> st, ui |-> ui, out |-> "raise"]
  ELSE HandleJson(st, ui, f, ts, openFails, writeFails)

HandleMessage(st, ui, f, ts, openFails, writeFails) ==
  IF f.shape = "nonjson"
  THEN [stats |-> st, ui |-> ui, out |-> "ignored"]  \* JSONDecodeError: pass
  ELSE HandleJson(st, ui, f, ts, openFails, writeFails)

\* ------------------------------------------------------------- config.py
\* A str is the sequence of its characters.
\* s.find(sub) + 1 for a non-empty sub: where sub first occurs in s, 0: nowhere
Find(s, sub) ==
  LET at == {i \in 1..(Len(s) - Len(sub) + 1) : SubSeq(s, i, i + Len(sub) - 1) = sub}
  IN IF at = {} THEN 0 ELSE CHOOSE i \in at : \A j \in at : i <= j

\* sub in s
StrIn(sub, s) == Find(s, sub) # 0

\* s.split(sep)[0]
SplitFirst(s, sep) ==
  IF StrIn(sep, s) THEN SubSeq(s, 1, Find(s, sep) - 1) ELSE s

\* what follows the first sep in s, where sep is in s
AfterFirst(s, sep) == SubSeq(s, Find(s, sep) + Len(sep), Len(s))

\* s.split(sep)[1], where sep is in s
SplitSecond(s, sep) == SplitFirst(AfterFirst(s, sep), sep)

IdEquals == <<"i", "d", "=">>
InternalTesting ==
  <<"i", "n", "t", "e", "r", "n", "a", "l", "-", "t", "e", "s", "t", "i", "n", "g">>

\* extract_channel_id(hyperate_url); no statement of its try block raises
extract_channel_id(hyperate_url) ==
  IF StrIn(IdEquals, hyperate_url)
  THEN LET id1 == SplitSecond(hyperate_url, IdEquals)
           id2 == IF StrIn(<<"&">>, id1) THEN SplitFirst(id1, <<"&">>) ELSE id1
       IN IF StrIn(<<"#">>, id2) THEN SplitFirst(id2, <<"#">>) ELSE id2
  ELSE InternalTesting

\* the six characters main.py:111 looks for, the four Chinese ones written
\* by their pinyin
Placeholder == <<"ni", "de", "hui", "hua", "I", "D">>

\* f"hr:{self.channel_id}" and the topic of a heartbeat
JoinTopic(id) == <<"h", "r", ":">> \o id
Phoenix == <<"p", "h", "o", "e", "n", "i", "x">>
NoTopic == <<>>

\* the channel before start() derived it (None)
NoChannel == <<"None">>

\* values of HYPERATE_URL in the environment: unset, or the page address
\* (its host written "h"), what precedes the id parameter, the parameter
\* and what follows it
Host == <<"h", "/">>
BeforeId == {<<"?">>, <<"?", "x", "=", "1", "&">>, <<"?", "u">>}
IdParts == {<<>>, IdEquals, IdEquals \o <<"a", "b">>, IdEquals \o Placeholder}
AfterId == {<<>>, <<"&", "y", "=", "2">>, <<"#", "f">>}
Urls ==
  {<<>>, Host \o <<"a", "b">>, Host \o Placeholder}
    \cup {Host \o b \o i \o a : b \in BeforeId, i \in IdParts, a \in AfterId}

\* the address of a running overlay
RunningUrl == Host \o <<"?">> \o IdEquals \o <<"a", "b">>

\* ------------------------------------------------------------------- Init
NoKey == 0
retry_delay == 5

\* the threads that may call HeartRateStats, none of them inside a call
Threads == {1, 2}
NoThread == 0
IdleLocals == [op |-> "none", hr |-> 0, ts |-> 0, minutes |-> 0, tnow |-> 0,
               result |-> NoResult]
NoRace == [interfered |-> FALSE, closedWrite |-> FALSE, misrouted |-> FALSE,
           attrError |-> FALSE]

\* HeartRateStats(), HeartRateUI(config), WebSocketClient(config, callback)
\* and start(): the state when websocket_loop begins its first iteration
\* HeartRateStats, WebSocketClient and the environment after construction
InitProgram ==
  /\ now = 0
  /\ \E openFails \in BOOLEAN :
       LET st == InitLogFile([current_date |-> NoDate, file_handle |-> NoHandle,
                              files |-> [d \in Dates |-> NoFile],
                              open_handles |-> {}],
                             DateOf(0), openFails)
       IN /\ current_date = st.current_date
          /\ file_handle = st.file_handle
          /\ files = st.files
          /\ open_handles = st.open_handles
          /\ events = IF openFails THEN 1 ELSE 0
  /\ data_queue = <<>>
  /\ added = <<>>
  /\ opLog = <<>>
  /\ pc = "start"
  /\ ws_connected = FALSE
  /\ message_ref = 1
  /\ websocket_key = NoKey
  /\ hb = "none" /\ hbCancel = FALSE /\ exc = "none"
  /\ sock = "none" /\ inbox = <<>> /\ keySeq = 0
  /\ nframes = 0 /\ naccepted = 0 /\ session = 0
  /\ exitKind = "none" /\ delay = 0 /\ failures = 0
  /\ hbOwner = 0
  /\ lastSent = [event |-> "none", ref |-> 0, owner |-> 0, at |-> 0, key |-> NoKey,
                 topic |-> NoTopic]
  /\ frameLog = <<>>
  /\ data_lock = NoThread
  /\ tpc = [t \in Threads |-> "idle"]
  /\ tloc = [t \in Threads |-> IdleLocals]
  /\ ncalls = 0
  /\ handleRace = NoRace
  /\ calcLog = <<>>
  /\ join_message = 0 /\ heartbeat_message = 0
  /\ nfetch = 0

\* HeartRateUI.__init__ (28-33)
InitUi ==
  /\ current = Dashes /\ max_hr = Dashes /\ min_hr = Dashes
  /\ heart_rate_history = <<>>
  /\ nupdates = 0

\* the overlay was started with a real address: __init__ has derived the
\* channel and started the thread, run() is in the Tk main loop
InitRunning ==
  /\ main_pc = "mainloop"
  /\ ws_thread = TRUE
  /\ HYPERATE_URL = RunningUrl
  /\ channel_id = extract_channel_id(RunningUrl)

Init == InitProgram /\ InitUi /\ InitRunning

\* a disk failure is an environment event: only while the budget lasts
DiskChoices(B) == {<<o, w>> \in BOOLEAN \X BOOLEAN : (o \/ w) => events < B}

\* ------------------------------------------------- websocket_loop (74-87)
\* time.sleep(5) after an exception; n consecutive failures preceded it
SleepBackoff(n) == retry_delay * n

SleepSeconds(n) == retry_delay

\* where the loop goes when websocket_handler ends: the except clause (with
\* its sleep) on an exception, straight to the next iteration on a return
AfterHandlerRetriesAtOnce(raised) == "start"

AfterHandler(raised) == IF raised THEN "sleep" ELSE "start"

\* the handler ended (kind: how): back in websocket_loop
HandlerExit(kind, raised) ==
  /\ pc' = AfterHandler(raised)
  /\ exitKind' = kind
  /\ delay' = 0
  /\ failures' = IF raised THEN failures + 1 ELSE 0

SleepDone ==
  /\ pc = "sleep"
  /\ pc' = "start"
  /\ delay' = SleepSeconds(failures)
  /\ UNCHANGED <<statsVars, uiVars, threadVars, calcVars, appVars, sendVars, ws_connected,
                 message_ref, websocket_key, hb,
                 hbCancel, exc, envVars, nframes, naccepted, session, exitKind, failures,
                 hbOwner, lastSent, frameLog, now>>

\* --------------------------------------------- websocket_handler (89-138)
\* a mistaken "self.message_ref += 1" that leaves the counter as it was
SameRef(r) == r

\* lines 111 and 150: self.message_ref += 1
NextRef(r) == r + 1

\* a mistaken line 92 that fetches a key only while none is stored
KeptKey(stored, served) == IF stored # NoKey THEN stored ELSE served

\* line 92, self.websocket_key = self.fetch_websocket_key(): the key the
\* page served replaces the stored one
FetchedKey(stored, served) == served

\* line 92, fetch_websocket_key succeeds: a key the page serves now
FetchKeyOk ==
  /\ pc = "start"
  /\ keySeq' = keySeq + 1
  /\ nfetch' = nfetch + 1
  /\ websocket_key' = FetchedKey(websocket_key, keySeq + 1)
  /\ pc' = "connect"
  /\ session' = session + 1
  /\ UNCHANGED <<statsVars, uiVars, threadVars, calcVars, appVars, join_message,
                 heartbeat_message, ws_connected, message_ref, hb, hbCancel, exc, sock,
                 inbox, events, nframes, naccepted, exitKind, delay, failures,
                 hbOwner, lastSent, frameLog, now>>

\* line 92, fetch_websocket_key raises (HTTP error, timeout, no key in the page)
FetchKeyFail(B) ==
  /\ pc = "start"
  /\ events < B
  /\ events' = events + 1
  /\ session' = session + 1
  /\ nfetch' = nfetch + 1
  /\ HandlerExit("fetch", TRUE)
  /\ UNCHANGED <<statsVars, uiVars, threadVars, calcVars, appVars, join_message,
                 heartbeat_message, ws_connected, message_ref, websocket_key, hb,
                 hbCancel, exc, sock, inbox, keySeq, nframes, naccepted, hbOwner,
                 lastSent, frameLog, now>>

\* a mistaken handler that leaves the block without closing the connection
AsyncWithLeavesOpen(s) == s

\* line 101, the exit of "async with websockets.connect(...)": the
\* connection is closed whichever way the block is left
AsyncWithExit(s) == "none"

\* lines 101-113: the socket opens; the join message takes the next ref
ConnectOk ==
  /\ pc = "connect"
  /\ sock' = "open"
  /\ inbox' = <<>>
  /\ ws_connected' = TRUE
  /\ join_message' = message_ref
  /\ message_ref' = NextRef(message_ref)
  /\ pc' = "join"
  /\ UNCHANGED <<statsVars, uiVars, threadVars, calcVars, appVars, heartbeat_message,
                 nfetch, websocket_key, hb, hbCancel, exc, keySeq, events,
                 histVars, now>>

\* line 101: websockets.connect raises
ConnectFail(B) ==
  /\ pc = "connect"
  /\ events < B
  /\ events' = events + 1
  /\ HandlerExit("connect", TRUE)
  /\ UNCHANGED <<statsVars, uiVars, threadVars, calcVars, appVars, sendVars, ws_connected,
                 message_ref, websocket_key, hb,
                 hbCancel, exc, sock, inbox, keySeq, nframes, naccepted, session,
                 hbOwner, lastSent, frameLog, now>>

\* a mistaken handler that builds and sends the join frame again
JoinSentAgain == "join"

\* lines 113-121: once "await websocket.send" returned, the handler creates
\* the heartbeat task and enters "async for"; it awaits no reply
AfterJoinSend == "recv"

\* lines 113-121: the join frame is sent, the heartbeat task is created and
\* the handler waits for the first frame
JoinSendOk ==
  /\ pc = "join"
  /\ sock = "open"
  /\ lastSent' = [event |-> "phx_join", ref |-> join_message, owner |-> session,
                  at |-> session, key |-> websocket_key,
                  topic |-> JoinTopic(channel_id)]
  /\ join_message' = 0
  /\ hb' = "created"
  /\ hbCancel' = FALSE
  /\ hbOwner' = session
  /\ pc' = AfterJoinSend
  /\ UNCHANGED <<statsVars, uiVars, threadVars, calcVars, appVars, heartbeat_message,
                 nfetch, ws_connected, message_ref, websocket_key, exc,
                 envVars, nframes, naccepted, session, exitKind, delay, failures,
                 frameLog, now>>

\* line 113 raises: the connection is already closed, or the write fails.
\* "async with" closes the socket; ws_connected stays True (line 138 is
\* inside the try that was not entered)
JoinSendFail(B) ==
  /\ pc = "join"
  /\ \/ sock # "open" /\ events' = events
     \/ sock = "open" /\ events < B /\ events' = events + 1
  /\ sock' = AsyncWithExit(sock)
  /\ join_message' = 0
  /\ inbox' = <<>>
  /\ HandlerExit("join", TRUE)
  /\ UNCHANGED <<statsVars, uiVars, threadVars, calcVars, appVars, heartbeat_message,
                 nfetch, ws_connected, message_ref, websocket_key, hb,
                 hbCancel, exc, keySeq, nframes, naccepted, session, hbOwner, lastSent,
                 frameLog, now>>

\* lines 131-133: the loop was left with exception e ("none": it ended);
\* heartbeat_task.cancel() is requested and the handler awaits the task
CancelForgotten(h) == FALSE

\* line 133, heartbeat_task.cancel(): a request, unless the task is done
CancelRequested(h) == h \notin {"done", "cancelled"}

EnterFinally(e) ==
  /\ pc' = "await_hb"
  /\ exc' = e
  /\ hbCancel' = CancelRequested(hb)

\* lines 121-130: one iteration of "async for message in websocket"
RecvFrame(D) ==
  /\ pc = "recv"
  /\ inbox # <<>>
  /\ \E c \in DiskChoices(D) :
       \E h \in {HandleMessage(StatsState, UiState, Head(inbox), now, c[1], c[2])} :
          /\ ApplyStats(h.stats)
          /\ ApplyUi(h.ui)
          /\ frameLog' = Append(frameLog,
                [f |-> Head(inbox), out |-> h.out, session |-> session, hbStopped |-> (hb = "done"),
                 changed |-> (h.stats # StatsState \/ h.ui # UiState)])
          /\ events' = IF (c[1] \/ c[2]) /\ h.stats # StatsState
                       THEN events + 1 ELSE events
          /\ IF h.out = "raise"
             THEN EnterFinally("JSONDecodeError")
             ELSE UNCHANGED <<pc, exc, hbCancel>>
  /\ inbox' = Tail(inbox)
  /\ UNCHANGED <<threadVars, calcVars, appVars, sendVars, ws_connected, message_ref,
                 websocket_key, hb, sock, keySeq,
                 histVarsButLog, now>>

\* line 121: the iterator ends (closed with code 1000/1001) or raises
\* ConnectionClosedError, after the frames received before the close were
\* iterated; control enters the finally clause
RecvClosed ==
  /\ pc = "recv"
  /\ inbox = <<>>
  /\ sock \in {"closedOK", "closedErr"}
  /\ EnterFinally(IF sock = "closedOK" THEN "none" ELSE "ConnectionClosedError")
  /\ UNCHANGED <<statsVars, uiVars, threadVars, calcVars, appVars, sendVars, ws_connected,
                 message_ref, websocket_key, hb,
                 envVars, histVars, now>>

ExitKindOf(e) ==
  CASE e = "none" -> "returned"
    [] e = "ConnectionClosedError" -> "read"
    [] OTHER -> "decode"

\* line 135, "await heartbeat_task", returns once the task has finished
HeartbeatNotAwaited(h) == TRUE

HeartbeatFinished(h) == h \in {"done", "cancelled"}

\* lines 134-138 and the end of "async with": the task is awaited,
\* ws_connected is reset, the socket is closed and the handler ends
AwaitHeartbeat ==
  /\ pc = "await_hb"
  /\ HeartbeatFinished(hb)
  /\ ws_connected' = FALSE
  /\ sock' = AsyncWithExit(sock)
  /\ inbox' = <<>>
  /\ exc' = "none"
  /\ HandlerExit(ExitKindOf(exc), exc # "none")
  /\ UNCHANGED <<statsVars, uiVars, threadVars, calcVars, appVars, sendVars, message_ref,
                 websocket_key, hb, hbCancel,
                 keySeq, events, nframes, naccepted, session, hbOwner, lastSent,
                 frameLog, now>>

\* ------------------------------------------------ send_heartbeat (140-155)
\* line 142, the loop test, then lines 144-150: the message takes the next ref
HeartbeatLoopTop ==
  IF ws_connected
  THEN /\ hb' = "sending"
       /\ heartbeat_message' = message_ref
       /\ message_ref' = NextRef(message_ref)
  ELSE hb' = "done" /\ UNCHANGED <<message_ref, heartbeat_message>>

\* the task runs for the first time
HeartbeatStart ==
  /\ hb = "created"
  /\ ~hbCancel
  /\ HeartbeatLoopTop
  /\ UNCHANGED <<statsVars, uiVars, threadVars, calcVars, appVars, join_message, nfetch,
                 pc, ws_connected, websocket_key, hbCancel, exc,
                 envVars, histVars, now>>

\* line 151 returns: the frame is on the wire; line 152 starts the 30 s sleep
HeartbeatSendOk ==
  /\ hb = "sending"
  /\ ~hbCancel
  /\ sock = "open"
  /\ lastSent' = [event |-> "heartbeat", ref |-> heartbeat_message, owner |-> hbOwner,
                  at |-> session, key |-> websocket_key, topic |-> Phoenix]
  /\ heartbeat_message' = 0
  /\ hb' = "sleeping"
  /\ UNCHANGED <<statsVars, uiVars, threadVars, calcVars, appVars, join_message, nfetch,
                 pc, ws_connected, message_ref, websocket_key,
                 hbCancel, exc, envVars, nframes, naccepted, session, exitKind,
                 delay, failures, hbOwner, frameLog, now>>

\* where send_heartbeat goes when line 151 raises: lines 153-155 print and
\* break, so the task ends; nothing is raised to websocket_handler
HeartbeatOnSendError == "done"

\* line 151 raises: the connection is closed, or the write fails and the
\* library closes the connection
HeartbeatSendFail(B) ==
  /\ hb = "sending"
  /\ ~hbCancel
  /\ \/ sock # "open" /\ UNCHANGED <<sock, events>>
     \/ sock = "open" /\ events < B /\ events' = events + 1
        /\ sock' = "closedErr"
  /\ heartbeat_message' = 0
  /\ hb' = HeartbeatOnSendError
  /\ UNCHANGED <<statsVars, uiVars, threadVars, calcVars, appVars, join_message, nfetch,
                 pc, ws_connected, message_ref, websocket_key,
                 hbCancel, exc, inbox, keySeq, histVars, now>>

\* line 152, asyncio.sleep(30), returns
HeartbeatWake(B) ==
  /\ hb = "sleeping"
  /\ ~hbCancel
  /\ events < B
  /\ events' = events + 1
  /\ HeartbeatLoopTop
  /\ UNCHANGED <<statsVars, uiVars, threadVars, calcVars, appVars, join_message, nfetch,
                 pc, ws_connected, websocket_key, hbCancel, exc,
                 sock, inbox, keySeq, histVars, now>>

\* the cancelled task is resumed with CancelledError at its await (or before
\* its first step); "except Exception" does not catch it
HeartbeatCancelled ==
  /\ hbCancel
  /\ hb \in {"created", "sending", "sleeping"}
  /\ hb' = "cancelled"
  /\ heartbeat_message' = 0
  /\ UNCHANGED <<statsVars, uiVars, threadVars, calcVars, appVars, join_message, nfetch,
                 pc, ws_connected, message_ref, websocket_key,
                 hbCancel, exc, envVars, histVars, now>>

\* ------------------------------------------------------------ environment
\* the server (kind "closedOK": close code 1000/1001) or the network
\* (kind "closedErr") closes the open connection
ServerClose(kind, B) ==
  /\ sock = "open"
  /\ events < B
  /\ events' = events + 1
  /\ sock' = kind
  /\ UNCHANGED <<statsVars, uiVars, threadVars, calcVars, appVars, sendVars, clientVars, inbox, keySeq, histVars, now>>

\* a frame reaches the joined connection
FrameArrives(f) ==
  /\ sock = "open"
  /\ pc = "recv"
  /\ nframes < MaxFrames
  /\ nframes' = nframes + 1
  /\ naccepted' = IF f.shape = "hr" /\ PyInt(f.hr).ok THEN naccepted + 1 ELSE naccepted
  /\ inbox' = Append(inbox, f)
  /\ UNCHANGED <<statsVars, uiVars, threadVars, calcVars, appVars, sendVars, clientVars,
                 sock, keySeq, events, session,
                 exitKind, delay, failures, hbOwner, lastSent, frameLog, now>>

\* half a day passes
Tick(B) ==
  /\ events < B
  /\ events' = events + 1
  /\ now' = now + 1
  /\ UNCHANGED <<statsVars, uiVars, threadVars, calcVars, appVars, sendVars, clientVars, sock, inbox, keySeq, histVars>>

\* ---------------------------------------------------------- specifications
\* B: the environment events of a run, D: those that may be disk errors
\* (D <= B); F: the frames the server may send
Handler(B, D) ==
  \/ FetchKeyOk \/ FetchKeyFail(B) \/ ConnectOk \/ ConnectFail(B)
  \/ JoinSendOk \/ JoinSendFail(B) \/ RecvFrame(D) \/ RecvClosed \/ AwaitHeartbeat

Heartbeat(B) ==
  \/ HeartbeatStart \/ HeartbeatSendOk \/ HeartbeatSendFail(B)
  \/ HeartbeatWake(B) \/ HeartbeatCancelled

Environment(B, F) ==
  \/ \E kind \in {"closedOK", "closedErr"} : ServerClose(kind, B)
  \/ \E f \in F : FrameArrives(f)
  \/ Tick(B)

App(B, F) == SleepDone \/ Handler(B, B) \/ Heartbeat(B) \/ Environment(B, F)

\* the connection's life, with plain frames
CoreFrames == {Frame("nonjson", NullV), Frame("hr", IntV(72))}

Next == App(MaxEvents, CoreFrames)

Spec == Init /\ [][Next]_vars

\* Scheduling: time.sleep, the HTTP request (timeout 10 s) and the opening
\* handshake return, and the event loop runs every task that is ready, so
\* the program (the loop, the handler and the heartbeat task) takes a step
\* whenever it has one. Nothing obliges the 30 s timer, the server or the
\* clock to act.
Fairness ==
  WF_vars(SleepDone \/ Handler(MaxEvents, 0) \/ HeartbeatStart \/ HeartbeatSendOk
            \/ HeartbeatSendFail(MaxEvents) \/ HeartbeatCancelled)

\* the connection's life with sample frames only, the clock standing still
\* and the disk sound
LiveFrames == {Frame("hr", IntV(72))}

NextLive ==
  \/ SleepDone \/ Handler(MaxEvents, 0) \/ Heartbeat(MaxEvents)
  \/ \E kind \in {"closedOK", "closedErr"} : ServerClose(kind, MaxEvents)
  \/ \E f \in LiveFrames : FrameArrives(f)

FairSpec == Init /\ [][NextLive]_vars /\ Fairness

\* every shape of frame, on a connection that meets one event
NextFrames == App(1, Frames)

SpecFrames == Init /\ [][NextFrames]_vars

\* ------------------------------------- HyperateTripleOverlay: the main thread
\* the daemon thread runs while the process does
ProcessRuns == ws_thread /\ main_pc # "exit"

\* main.py:19, load_config(): sys.exit(1) at config.py:24 when the variable
\* is unset or empty
LoadConfig ==
  /\ main_pc = "load_config"
  /\ main_pc' = IF HYPERATE_URL = <<>> THEN "exit" ELSE "init"
  /\ UNCHANGED <<statsVars, threadVars, calcVars, sendVars, ws_thread, HYPERATE_URL,
                 channel_id, nupdates, uiVars, clientVars, envVars, histVars, now>>

\* main.py:22-40, the rest of __init__: the objects are constructed and
\* ws_client.start() (line 37) derives the channel and starts the thread
StartClient ==
  /\ main_pc = "init"
  /\ channel_id' = extract_channel_id(HYPERATE_URL)
  /\ ws_thread' = TRUE
  /\ main_pc' = "run"
  /\ UNCHANGED <<statsVars, threadVars, calcVars, sendVars, HYPERATE_URL, nupdates,
                 uiVars, clientVars, envVars, histVars, now>>

\* main.py:109-115, the head of run(): sys.exit(1) when the address holds
\* the placeholder text, the Tk main loop otherwise
RunCheck ==
  /\ main_pc = "run"
  /\ main_pc' = IF StrIn(Placeholder, HYPERATE_URL) THEN "exit" ELSE "mainloop"
  /\ UNCHANGED <<statsVars, threadVars, calcVars, sendVars, ws_thread, HYPERATE_URL,
                 channel_id, nupdates, uiVars, clientVars, envVars, histVars, now>>

\* the process from its start, with any address; the thread, once started,
\* up to its first heartbeat, with one failure at most
InitStartup ==
  /\ InitProgram /\ InitUi
  /\ main_pc = "load_config"
  /\ ws_thread = FALSE
  /\ HYPERATE_URL \in Urls
  /\ channel_id = NoChannel

NextStartup ==
  \/ LoadConfig \/ StartClient \/ RunCheck
  \/ ProcessRuns /\ FetchKeyOk
  \/ ProcessRuns /\ FetchKeyFail(1)
  \/ ProcessRuns /\ SleepDone
  \/ ProcessRuns /\ ConnectOk
  \/ ProcessRuns /\ ConnectFail(1)
  \/ ProcessRuns /\ JoinSendOk
  \/ ProcessRuns /\ HeartbeatStart
  \/ ProcessRuns /\ HeartbeatSendOk

SpecStartup == InitStartup /\ [][NextStartup]_vars

\* ------------------------------------------------ a HeartRateUI by itself
MaxUpdates == 2       \* update_heart_rate calls after the warm-up

\* the values of the warm-up: the oldest one an extreme, the second any,
\* then 70 until the history is full
WarmUpValues ==
  CASE Len(heart_rate_history) = 0 -> {50, 90}
    [] Len(heart_rate_history) = 1 -> {50, 70, 90}
    [] OTHER -> {70}

WarmUpLength == max_history_size

\* ui.update_heart_rate(v) of the warm-up
WarmUpCall(v) ==
  /\ nupdates = 0
  /\ Len(heart_rate_history) < WarmUpLength
  /\ ApplyUi(UiUpdateHeartRate(UiState, IntV(v)))
  /\ UNCHANGED <<statsVars, threadVars, calcVars, sendVars, appVars, clientVars,
                 envVars, histVars, now>>

UiInputs == {IntV(72), IntV(95), IntV(40), StrV(<<"7", "5">>), IntV(0), StrV(<<"a", "b">>)}

\* ui.update_heart_rate(x) on a fresh ui or after the warm-up
UpdateHeartRateCall(x) ==
  /\ heart_rate_history = <<>> \/ Len(heart_rate_history) >= WarmUpLength - 2
  /\ nupdates < MaxUpdates
  /\ nupdates' = nupdates + 1
  /\ ApplyUi(UiUpdateHeartRate(UiState, x))
  /\ UNCHANGED <<statsVars, threadVars, calcVars, sendVars, main_pc, ws_thread,
                 HYPERATE_URL, channel_id, clientVars, envVars, histVars, now>>

NextUi ==
  \/ \E v \in WarmUpValues : WarmUpCall(v)
  \/ \E x \in UiInputs : UpdateHeartRateCall(x)

SpecUi == Init /\ [][NextUi]_vars

\* HeartRateStats used directly: add_heart_rate(heart_rate, timestamp) with
\* the timestamp given or left to time.time()
AddCall(hr, ts, B) ==
  /\ Len(added) < MaxAdds
  /\ \E c \in DiskChoices(B) :
       /\ ApplyStats(AddHeartRate(StatsState, hr, ts, c[1], c[2]))
       /\ events' = IF c[1] \/ c[2] THEN events + 1 ELSE events
  /\ UNCHANGED <<uiVars, threadVars, calcVars, appVars, sendVars, clientVars, sock, inbox, keySeq, histVars, now>>

NextStats ==
  \/ \E hr \in {60, 61} : \E ts \in {now, now + 2} : AddCall(hr, ts, MaxEvents)
  \/ Tick(MaxEvents)

SpecStats == Init /\ [][NextStats]_vars

\* HeartRateStats used directly, one call after another: add_heart_rate,
\* clear_data, get_all_data and get_recent_data(minutes)
ClearCall(B) ==
  /\ Len(opLog) < MaxOps
  /\ \E openFails \in {o \in BOOLEAN : o => events < B} :
       /\ ApplyStats(ClearData(StatsState, now, openFails))
       /\ events' = IF openFails THEN events + 1 ELSE events
  /\ UNCHANGED <<uiVars, threadVars, calcVars, appVars, sendVars, clientVars, sock, inbox, keySeq, histVars, now>>

GetAllCall ==
  /\ Len(opLog) < MaxOps
  /\ ApplyStats(GetAllData(StatsState, now))
  /\ UNCHANGED <<uiVars, threadVars, calcVars, appVars, sendVars, clientVars, envVars, histVars, now>>

GetRecentCall(minutes) ==
  /\ Len(opLog) < MaxOps
  /\ ApplyStats(GetRecentData(StatsState, now, minutes))
  /\ UNCHANGED <<uiVars, threadVars, calcVars, appVars, sendVars, clientVars, envVars, histVars, now>>

\* get_recent_data's argument: none, the default 5, half a day, a day
MinutesArgs == {0, 5, 720, 1440}

NextLogger ==
  \/ \E hr \in {60, 61} : \E ts \in {now, now + 2} :
       Len(opLog) < MaxOps /\ AddCall(hr, ts, MaxEvents)
  \/ ClearCall(MaxEvents)
  \/ GetAllCall
  \/ \E minutes \in MinutesArgs : GetRecentCall(minutes)
  \/ Tick(MaxEvents)

SpecLogger == Init /\ [][NextLogger]_vars

\* calculate_stats and _interpret_trend called directly on lists a caller
\* built, before and after the window takes a sample
MaxLen == 3           \* length of the lists built from every choice of values

\* the i-th sample of a list was taken i - 1 half days after the first
PointsOf(values) == [i \in 1..Len(values) |-> DataPoint(i - 1, values[i])]

RECURSIVE ListsUpTo(_, _)
ListsUpTo(S, n) ==
  IF n = 0 THEN {<<>>}
  ELSE LET shorter == ListsUpTo(S, n - 1)
       IN shorter \cup {Append(l, v) : l \in {x \in shorter : Len(x) = n - 1}, v \in S}

\* 60, 62, ..., 78
Climb == [i \in 1..10 |-> 58 + 2 * i]

\* ten samples of 70 with the one at index i (from 0) raised by d: the
\* slope is (2 * i - 9) * d / 165
Bump(i, d) == [k \in 1..10 |-> IF k = i + 1 THEN 70 + d ELSE 70]

ValueLists ==
  ListsUpTo({60, 62}, MaxLen)
    \cup {<<70>>, <<60, 60, 60, 61>>, <<60, 60, 61, 61>>, <<50, 55, 65, 105, 145>>,
          <<45, 55, 65, 105, 145>>, <<49, 50, 59, 60, 99, 100, 139, 140>>,
          SubSeq(Climb, 1, 9), Climb, <<100>> \o Climb, Climb \o <<100>>,
          <<100, 40>> \o Climb}
    \cup {Bump(i, d) : i \in {4, 5}, d \in {0, 16, 17, 82, 83}}

\* slopes around the four thresholds, in twentieths
SlopeArgs == {Fraction(k, 20) : k \in {-40, -11, -10, -9, -3, -2, -1, 0, 1, 2, 3, 9, 10, 11, 40}}

\* what calculate_stats may assign: the attributes of self
Attributes(st) == [data_queue |-> st.data_queue, current_date |-> st.current_date,
                   file_handle |-> st.file_handle, files |-> st.files,
                   open_handles |-> st.open_handles]

\* a calcLog entry: the call, its argument, the object before the call, what
\* it returned, and the argument and the object when it had returned
CalcEntry(op, data_points, slope, before, r, label) ==
  [op |-> op, data_points |-> data_points, slope |-> slope, before |-> Attributes(before),
   result |-> r.result, trend |-> label, after |-> r.data_points,
   self |-> Attributes(r.st)]

\* calcLog keeps the last call, and before it the call that preceded it when
\* that one had the same argument
Remember(log, e) ==
  IF log # <<>> /\ Last(log).op = e.op /\ Last(log).data_points = e.data_points
       /\ Last(log).slope = e.slope
  THEN <<Last(log), e>>
  ELSE <<e>>

CalculateStatsCall(data_points) ==
  /\ \E r \in {CalculateStats(StatsState, data_points)} :
       /\ ApplyStats(r.st)
       /\ calcLog' = Remember(calcLog, CalcEntry("calculate_stats", data_points,
                                                 Fraction(0, 1), StatsState, r, "none"))
  /\ UNCHANGED <<uiVars, threadVars, sendVars, appVars, clientVars, envVars, histVars, now>>

InterpretTrendCall(slope) ==
  /\ calcLog' = Remember(calcLog, CalcEntry("_interpret_trend", <<>>, slope, StatsState,
                                            [st |-> StatsState, result |-> NoStats,
                                             data_points |-> <<>>],
                                            InterpretTrend(slope)))
  /\ UNCHANGED <<statsVars, uiVars, threadVars, sendVars, appVars, clientVars, envVars, histVars, now>>

NextCalc ==
  \/ \E values \in ValueLists : CalculateStatsCall(PointsOf(values))
  \/ \E slope \in SlopeArgs : InterpretTrendCall(slope)
  \/ data_queue = <<>> /\ AddCall(60, now, 0)

SpecCalc == Init /\ [][NextCalc]_vars

\* ------------------------------------------ HeartRateStats used by threads
\* Each action is one step of one thread t between two points where the
\* interpreter may switch threads. A handle stays named by the date of its
\* file: file_handle \notin open_handles is a closed file object.
otherVars == <<calcVars, sendVars, appVars, uiVars, clientVars, envVars, histVars, now>>

Goto(t, p) == tpc' = [tpc EXCEPT ![t] = p]

\* "with self.data_lock:" entered and left
AcquireNoWait(t) == data_lock' = t

Acquire(t) == data_lock = NoThread /\ data_lock' = t

Release(t) == data_lock' = NoThread

\* t is inside add_heart_rate between its date check and its row write
InAdd(t) ==
  tpc[t] \in {"ensure_if", "ensure_close", "ensure_none", "ensure_date",
              "ensure_open", "add_lock", "append", "write_if", "write"}

\* a step of t that closes, replaces or writes through the handle
TouchHandle(t, closedWrite, misrouted, attrError) ==
  handleRace' = [interfered |-> handleRace.interfered
                                  \/ \E u \in Threads \ {t} : InAdd(u),
                 closedWrite |-> handleRace.closedWrite \/ closedWrite,
                 misrouted |-> handleRace.misrouted \/ misrouted,
                 attrError |-> handleRace.attrError \/ attrError]

\* a thread that is in no call calls one of the methods
Call(t, op, hr, ts, minutes) ==
  /\ tpc[t] = "idle"
  /\ ncalls < MaxCalls
  /\ ncalls' = ncalls + 1
  /\ tloc' = [tloc EXCEPT ![t] = [op |-> op, hr |-> hr, ts |-> ts, minutes |-> minutes,
                                  tnow |-> 0, result |-> NoResult]]
  /\ Goto(t, CASE op = "add" -> "ensure_cmp"
               [] op = "clear" -> "clear_if"
               [] op \in {"recent", "recent_stats"} -> "read_time"
               [] OTHER -> "read_lock")
  /\ UNCHANGED <<statsVars, data_lock, handleRace, otherVars>>

\* the call of t ends (raised: with an exception that leaves the method)
Return(t) ==
  /\ Goto(t, "idle")
  /\ tloc' = [tloc EXCEPT ![t] = IdleLocals]

\* "if self.file_handle:" at position p
IfHandle(t, p, pYes, pNo) ==
  /\ tpc[t] = p
  /\ Goto(t, IF file_handle # NoHandle THEN pYes ELSE pNo)
  /\ UNCHANGED <<statsVars, data_lock, tloc, ncalls, handleRace, otherVars>>

\* "self.file_handle.close()" at position p; None has no close():
\* the AttributeError leaves the method (and its with block, if locked)
CloseHandle(t, p, pNext, locked) ==
  /\ tpc[t] = p
  /\ IF file_handle = NoHandle
     THEN /\ Return(t)
          /\ IF locked THEN Release(t) ELSE UNCHANGED data_lock
          /\ TouchHandle(t, FALSE, FALSE, TRUE)
          /\ UNCHANGED open_handles
     ELSE /\ open_handles' = Close(open_handles, file_handle)
          /\ Goto(t, pNext)
          /\ TouchHandle(t, FALSE, FALSE, FALSE)
          /\ UNCHANGED <<data_lock, tloc>>
  /\ UNCHANGED <<data_queue, current_date, file_handle, files, added, opLog,
                 ncalls, otherVars>>

\* "self.file_handle = None" at position p
SetNone(t, p, pNext) ==
  /\ tpc[t] = p
  /\ file_handle' = NoHandle
  /\ Goto(t, pNext)
  /\ TouchHandle(t, FALSE, FALSE, FALSE)
  /\ UNCHANGED <<data_queue, current_date, files, open_handles, added, opLog,
                 data_lock, tloc, ncalls, otherVars>>

\* "self.current_date = d" at position p
SetDate(t, p, d, pNext) ==
  /\ tpc[t] = p
  /\ current_date' = d
  /\ Goto(t, pNext)
  /\ UNCHANGED <<data_queue, file_handle, files, open_handles, added, opLog,
                 data_lock, tloc, ncalls, handleRace, otherVars>>

\* "self.file_handle = open(..., 'a')" for date d at position p, with the
\* header written where withHeader and the file is new
OpenHandle(t, p, d, withHeader, pNext) ==
  /\ tpc[t] = p
  /\ file_handle' = d
  /\ open_handles' = open_handles \cup {d}
  /\ files' = IF withHeader /\ ~files[d].exists
              THEN WriteLine(OpenAppend(files, d), d, Header)
              ELSE OpenAppend(files, d)
  /\ Goto(t, pNext)
  /\ TouchHandle(t, FALSE, FALSE, FALSE)
  /\ UNCHANGED <<data_queue, current_date, added, opLog, data_lock, tloc, ncalls,
                 otherVars>>

\* add_heart_rate: _ensure_correct_log_file (92-105), not under the lock
EnsureCompare(t) ==
  /\ tpc[t] = "ensure_cmp"
  /\ Goto(t, IF DateOf(tloc[t].ts) # current_date THEN "ensure_if" ELSE "add_lock")
  /\ UNCHANGED <<statsVars, data_lock, tloc, ncalls, handleRace, otherVars>>

EnsureIf(t) == IfHandle(t, "ensure_if", "ensure_close", "ensure_date")

EnsureClose(t) == CloseHandle(t, "ensure_close", "ensure_none", FALSE)

EnsureNone(t) == SetNone(t, "ensure_none", "ensure_date")

EnsureDate(t) == SetDate(t, "ensure_date", DateOf(tloc[t].ts), "ensure_open")

EnsureOpen(t) == OpenHandle(t, "ensure_open", DateOf(tloc[t].ts), FALSE, "add_lock")

\* add_heart_rate: lines 136-145
AddLock(t) ==
  /\ tpc[t] = "add_lock"
  /\ Acquire(t)
  /\ Goto(t, "append")
  /\ UNCHANGED <<statsVars, tloc, ncalls, handleRace, otherVars>>

AddAppend(t) ==
  /\ tpc[t] = "append"
  /\ data_queue' = DequeAppend(data_queue, DataPoint(tloc[t].ts, tloc[t].hr),
                               max_memory_size)
  /\ added' = Append(added, DataPoint(tloc[t].ts, tloc[t].hr))
  /\ Goto(t, "write_if")
  /\ UNCHANGED <<current_date, file_handle, files, open_handles, opLog, data_lock,
                 tloc, ncalls, handleRace, otherVars>>

AddIf(t) == IfHandle(t, "write_if", "write", "add_unlock")

\* write and flush; on None (AttributeError) and on a closed file
\* (ValueError) the except clause prints
AddWrite(t) ==
  /\ tpc[t] = "write"
  /\ IF file_handle # NoHandle /\ file_handle \in open_handles
     THEN /\ files' = WriteLine(files, file_handle, Row(tloc[t].ts, tloc[t].hr))
          /\ TouchHandle(t, FALSE, file_handle # DateOf(tloc[t].ts), FALSE)
     ELSE /\ UNCHANGED files
          /\ TouchHandle(t, file_handle # NoHandle, FALSE, FALSE)
  /\ Goto(t, "add_unlock")
  /\ UNCHANGED <<data_queue, current_date, file_handle, open_handles, added, opLog,
                 data_lock, tloc, ncalls, otherVars>>

\* the with block is left and the method returns
Unlock(t, p) ==
  /\ tpc[t] = p
  /\ Release(t)
  /\ Return(t)
  /\ UNCHANGED <<statsVars, ncalls, handleRace, otherVars>>

AddUnlock(t) == Unlock(t, "add_unlock")

\* clear_data: lines 243-245, not under the lock
ClearIf(t) == IfHandle(t, "clear_if", "clear_close", "clear_lock")

ClearClose(t) == CloseHandle(t, "clear_close", "clear_none", FALSE)

ClearNone(t) == SetNone(t, "clear_none", "clear_lock")

\* clear_data: lines 247-263
ClearLock(t) ==
  /\ tpc[t] = "clear_lock"
  /\ Acquire(t)
  /\ Goto(t, "clear_queue")
  /\ UNCHANGED <<statsVars, tloc, ncalls, handleRace, otherVars>>

ClearQueue(t) ==
  /\ tpc[t] = "clear_queue"
  /\ data_queue' = <<>>
  /\ Goto(t, "clear_remove")
  /\ UNCHANGED <<current_date, file_handle, files, open_handles, added, opLog,
                 data_lock, tloc, ncalls, handleRace, otherVars>>

ClearRemove(t) ==
  /\ tpc[t] = "clear_remove"
  /\ files' = RemoveLogFiles(files)
  /\ Goto(t, "init_cmp")
  /\ UNCHANGED <<data_queue, current_date, file_handle, open_handles, added, opLog,
                 data_lock, tloc, ncalls, handleRace, otherVars>>

\* clear_data: _init_log_file (64-84), under the lock of clear_data
InitCompare(t) ==
  /\ tpc[t] = "init_cmp"
  /\ Goto(t, IF current_date # DateOf(now) THEN "init_if" ELSE "clear_unlock")
  /\ UNCHANGED <<statsVars, data_lock, tloc, ncalls, handleRace, otherVars>>

InitIf(t) == IfHandle(t, "init_if", "init_close", "init_date")

InitClose(t) == CloseHandle(t, "init_close", "init_none", TRUE)

InitNone(t) == SetNone(t, "init_none", "init_date")

InitDate(t) == SetDate(t, "init_date", DateOf(now), "init_open")

InitOpen(t) == OpenHandle(t, "init_open", DateOf(now), TRUE, "clear_unlock")

ClearUnlock(t) == Unlock(t, "clear_unlock")

\* get_recent_data: line 157, time.time() read before the lock is taken
ReadTime(t) ==
  /\ tpc[t] = "read_time"
  /\ tloc' = [tloc EXCEPT ![t].tnow = now]
  /\ Goto(t, "read_lock")
  /\ UNCHANGED <<statsVars, data_lock, ncalls, handleRace, otherVars>>

\* get_recent_data (159-162) and get_all_data (166-167)
ReadLock(t) ==
  /\ tpc[t] = "read_lock"
  /\ Acquire(t)
  /\ Goto(t, "read_copy")
  /\ UNCHANGED <<statsVars, tloc, ncalls, handleRace, otherVars>>

ReadCopy(t) ==
  /\ tpc[t] = "read_copy"
  /\ tloc' = [tloc EXCEPT ![t].result =
       IF tloc[t].op \in {"recent", "recent_stats"}
       THEN RecentList(data_queue, tloc[t].tnow, tloc[t].minutes)
       ELSE AllList(data_queue)]
  /\ Goto(t, "read_unlock")
  /\ UNCHANGED <<statsVars, data_lock, ncalls, handleRace, otherVars>>

\* where a reading call goes when it has left the with block:
\* get_recent_stats and get_overall_stats pass the list to calculate_stats
AfterRead(op) == IF op \in {"recent_stats", "overall_stats"} THEN "calc" ELSE "idle"

ReadUnlock(t) ==
  /\ tpc[t] = "read_unlock"
  /\ Release(t)
  /\ Goto(t, AfterRead(tloc[t].op))
  /\ IF AfterRead(tloc[t].op) = "idle"
     THEN tloc' = [tloc EXCEPT ![t] = IdleLocals]
     ELSE UNCHANGED tloc
  /\ UNCHANGED <<statsVars, ncalls, handleRace, otherVars>>

\* calculate_stats(data_points) (169-229) on the list the read returned
Calc(t) ==
  /\ tpc[t] = "calc"
  /\ Return(t)
  /\ UNCHANGED <<statsVars, data_lock, ncalls, handleRace, otherVars>>

ThreadStep(t) ==
  \/ \E ts \in {now, now + 2} : Call(t, "add", 60, ts, 0)
  \/ Call(t, "clear", 0, 0, 0)
  \/ Call(t, "all", 0, 0, 0)
  \/ Call(t, "overall_stats", 0, 0, 0)
  \/ \E minutes \in {0, 720} : \E op \in {"recent", "recent_stats"} :
       Call(t, op, 0, 0, minutes)
  \/ EnsureCompare(t) \/ EnsureIf(t) \/ EnsureClose(t) \/ EnsureNone(t)
  \/ EnsureDate(t) \/ EnsureOpen(t)
  \/ AddLock(t) \/ AddAppend(t) \/ AddIf(t) \/ AddWrite(t) \/ AddUnlock(t)
  \/ ClearIf(t) \/ ClearClose(t) \/ ClearNone(t) \/ ClearLock(t) \/ ClearQueue(t)
  \/ ClearRemove(t) \/ InitCompare(t) \/ InitIf(t) \/ InitClose(t) \/ InitNone(t)
  \/ InitDate(t) \/ InitOpen(t) \/ ClearUnlock(t)
  \/ ReadTime(t) \/ ReadLock(t) \/ ReadCopy(t) \/ ReadUnlock(t) \/ Calc(t)

NextThreads == \E t \in Threads : ThreadStep(t)

SpecThreads == Init /\ [][NextThreads]_vars

\* ------------------------------------------------------------------ claims
\* C1: after any sequence of add_heart_rate calls the window holds exactly
\* the last min(N, capacity) samples added, in arrival order; so it never
\* holds more than capacity samples and a full window loses its oldest one.
C1_WindowHoldsLastSamples ==
  /\ Len(data_queue) <= max_memory_size
  /\ data_queue = Suffix(added, Min(Len(added), max_memory_size))

C1_Witness ==
  /\ Len(added) > max_memory_size
  /\ Len(data_queue) = max_memory_size
  /\ data_queue[1] # added[1]

\* C2: a session that ended because the socket closed mid-stream (a read
\* error, or a close by the server) is followed by the next session only
\* after the 5 second delay.
C2_CloseIsFollowedByDelay ==
  (pc = "start" /\ exitKind \in {"read", "returned"}) => delay = retry_delay

\* C3: a session whose heartbeat stopped on a send failure does not go on
\* streaming: it handles no further frame.
C3_NoStreamingWithoutHeartbeat ==
  \A i \in DOMAIN frameLog : ~frameLog[i].hbStopped

\* C4: websocket_loop never stops: wherever an attempt failed, and however
\* many attempts failed in a row, the loop sleeps and starts another
\* attempt, and the sleep before it is always the same 5 seconds.
C4_LoopRetriesForeverWithFixedDelay ==
  /\ pc \in {"start", "connect", "join", "recv", "await_hb", "sleep"}
  /\ (pc = "sleep" => failures > 0 /\ ENABLED SleepDone)
  /\ (pc = "start" => ENABLED FetchKeyOk)
  /\ (pc = "start" /\ failures > 0 => delay = retry_delay)

C4_Witness ==
  /\ pc = "start"
  /\ failures >= 2
  /\ delay = retry_delay
  /\ exitKind \in {"fetch", "connect", "join", "read"}

\* C5: a run meets finitely many failures (at most MaxEvents events), so in
\* every run key resolution, socket open and join send succeed from some
\* point on. Under fair scheduling the client is again and again in a
\* streaming session in which every sample frame received so far has been
\* dispatched to the window: it always comes back to streaming, and no
\* received sample frame stays undispatched.
C5_EventuallyStreamingAndDispatched ==
  []<>(pc = "recv" /\ Len(added) = naccepted)

C5_Witness ==
  /\ pc = "recv"
  /\ session >= 3
  /\ exitKind \in {"fetch", "connect", "join"}
  /\ Len(added) >= 1

HeartbeatAlive == hb \in {"created", "sending", "sleeping"}

\* C6: when websocket_handler has ended, the heartbeat task of its session
\* has finished: a live heartbeat task belongs to the session that is
\* streaming or being torn down, and every heartbeat frame is sent during
\* the session that created its task.
C6_HeartbeatEndsWithItsSession ==
  /\ HeartbeatAlive => pc \in {"recv", "await_hb"} /\ hbOwner = session
  /\ lastSent.event = "heartbeat" => lastSent.owner = lastSent.at

C6_Witness ==
  /\ pc \in {"start", "sleep"}
  /\ hb = "cancelled"
  /\ exitKind \in {"read", "returned"}

IsNonJson(e) == e.f.shape = "nonjson"

IsPlainSample(e) == e.f = Frame("hr", IntV(72))

\* C7: a frame that is not JSON is dropped and the session goes on: the
\* frame changes nothing and no exception leaves the receive loop (out is
\* "ignored", not "raise"), and the sample frame that follows it on the
\* same session is dispatched.
C7_NonJsonFrameIsNotFatal ==
  \A i \in DOMAIN frameLog :
    IsNonJson(frameLog[i]) =>
      /\ frameLog[i].out = "ignored"
      /\ ~frameLog[i].changed
      /\ (i < Len(frameLog) /\ IsPlainSample(frameLog[i + 1])
           /\ frameLog[i + 1].session = frameLog[i].session)
           => frameLog[i + 1].out = "called" /\ frameLog[i + 1].changed

C7_Witness ==
  \E i \in DOMAIN frameLog :
    /\ IsNonJson(frameLog[i])
    /\ i < Len(frameLog)
    /\ IsPlainSample(frameLog[i + 1])
    /\ frameLog[i + 1].session = frameLog[i].session
    /\ Len(added) > 0

\* payload.hr is a number, or a string that reads as a whole number
IsNumeric(x) == x.t \in {"int", "float"} \/ (x.t = "str" /\ PyIntOfStr(x.s).ok)

IsNumericFrame(f) == f.shape = "hr" /\ IsNumeric(f.hr)

NumericHandled == {i \in DOMAIN frameLog : IsNumericFrame(frameLog[i].f)}

DataRows == {<<d, i>> \in Dates \X (1..(MaxFrames + 1)) :
               i <= Len(files[d].lines) /\ ~files[d].lines[i].hdr}

\* every frame handled so far that carried payload.hr carried a numeric one
OnlyNumericSamples ==
  \A i \in DOMAIN frameLog : frameLog[i].f.shape = "hr" => IsNumericFrame(frameLog[i].f)

\* C8: every frame with a numeric payload.hr reaches the window, the log
\* and the consumer once each (counted where no other kind of sample frame
\* was handled, and the log where the disk is sound), and the consumer's
\* current value is the value of the newest sample in the window.
C8_NumericFrameReachesAllSinks ==
  /\ \A i \in NumericHandled : frameLog[i].out = "called" /\ frameLog[i].changed
  /\ OnlyNumericSamples =>
       /\ Len(added) = Cardinality(NumericHandled)
       /\ Len(heart_rate_history) = Cardinality(NumericHandled)
       /\ events = 0 => Cardinality(DataRows) = Cardinality(NumericHandled)
       /\ data_queue # <<>> => current = PyStr(Last(data_queue).heart_rate)

RECURSIVE CountAccepted(_)
CountAccepted(q) ==
  IF q = <<>> THEN 0
  ELSE (IF Head(q).shape = "hr" /\ PyInt(Head(q).hr).ok THEN 1 ELSE 0)
       + CountAccepted(Tail(q))

\* C9: over reconnects and retries alike, every accepted sample frame that
\* was iterated added exactly one entry to the window: none twice, none
\* skipped; until the window is full its length is the number of them.
C9_ExactlyOneEntryPerAcceptedFrame ==
  /\ Len(added) = naccepted - CountAccepted(inbox)
  /\ Len(data_queue) = Min(Len(added), max_memory_size)
  /\ \A i \in DOMAIN frameLog :
       (frameLog[i].f.shape = "hr" /\ PyInt(frameLog[i].f.hr).ok)
         => frameLog[i].out = "called"

C9_Witness ==
  /\ session >= 2
  /\ naccepted = 2
  /\ Len(data_queue) = 2
  /\ \E i, j \in DOMAIN frameLog : frameLog[i].session # frameLog[j].session

\* C10: a frame whose payload.hr is missing or not numeric changes neither
\* the window, nor the log, nor the values shown, and the session goes on.
C10_NonNumericFrameChangesNothing ==
  \A i \in DOMAIN frameLog :
    (frameLog[i].f.shape \in {"nohr", "hr"} /\ ~IsNumericFrame(frameLog[i].f))
      => ~frameLog[i].changed /\ frameLog[i].out # "raise"

\* the values of the sample frames iterated so far that int() accepted, in
\* the order the frames were iterated
RECURSIVE AcceptedValues(_)
AcceptedValues(log) ==
  IF log = <<>> THEN <<>>
  ELSE AcceptedValues(SubSeq(log, 1, Len(log) - 1))
       \o (IF Last(log).f.shape = "hr" /\ PyInt(Last(log).f.hr).ok
           THEN <<PyInt(Last(log).f.hr).v>> ELSE <<>>)

\* those of them the consumer takes (update_heart_rate skips a falsy value)
RECURSIVE ConsumerValues(_)
ConsumerValues(log) ==
  IF log = <<>> THEN <<>>
  ELSE ConsumerValues(SubSeq(log, 1, Len(log) - 1))
       \o (IF Last(log).f.shape = "hr" /\ PyInt(Last(log).f.hr).ok
              /\ ~PyNot(Last(log).f.hr)
           THEN <<PyInt(Last(log).f.hr).v>> ELSE <<>>)

HeartRates(q) == [i \in 1..Len(q) |-> q[i].heart_rate]

\* the data rows of the log directory, file after file by date
RECURSIVE RowsUpTo(_)
RowsUpTo(d) ==
  IF d < 0 THEN <<>>
  ELSE RowsUpTo(d - 1) \o SelectSeq(files[d].lines, LAMBDA l : ~l.hdr)

LogRows == RowsUpTo(DateOf(MaxEvents + 2))

\* a is b with some elements left out
RECURSIVE IsSubSeq(_, _)
IsSubSeq(a, b) ==
  IF a = <<>> THEN TRUE
  ELSE IF b = <<>> THEN FALSE
  ELSE IF Head(a) = Head(b) THEN IsSubSeq(Tail(a), Tail(b))
  ELSE IsSubSeq(a, Tail(b))

\* C11: samples reach the window, the log and the consumer in the order
\* their frames were iterated: the window entries, the log rows and the
\* consumer's updates are each in frame order (the window keeps the newest,
\* the log misses only rows whose write failed).
C11_SinksKeepFrameOrder ==
  /\ HeartRates(added) = AcceptedValues(frameLog)
  /\ HeartRates(data_queue)
       = Suffix(AcceptedValues(frameLog), Min(Len(added), max_memory_size))
  /\ heart_rate_history = ConsumerValues(frameLog)
  /\ IsSubSeq(HeartRates(LogRows), AcceptedValues(frameLog))
  /\ events = 0 => HeartRates(LogRows) = AcceptedValues(frameLog)

C11_Witness ==
  /\ Len(frameLog) = 2
  /\ frameLog[1].session = frameLog[2].session
  /\ HeartRates(data_queue) = <<72, 75>>
  /\ HeartRates(LogRows) = <<72, 75>>
  /\ heart_rate_history = <<72, 75>>

\* C12: every log file that holds a row starts with the header row, holds
\* no other header, and holds rows of its own date only.
C12_EveryLogFileStartsWithHeader ==
  \A d \in Dates :
    LET lines == files[d].lines
    IN (\E i \in 1..Len(lines) : ~lines[i].hdr) =>
         /\ lines[1].hdr
         /\ \A i \in 2..Len(lines) : ~lines[i].hdr /\ DateOf(lines[i].timestamp) = d

\* C13: when clear_data has returned (its open, if any, did not fail) the
\* logger holds an open handle for the current date, and a sample of that
\* date added next is written as a row.
C13_ClearLeavesOpenHandle ==
  \A i \in DOMAIN opLog :
    (opLog[i].op = "clear" /\ ~opLog[i].openFailed) =>
      /\ opLog[i].handle = DateOf(opLog[i].ts)
      /\ (/\ i < Len(opLog)
          /\ opLog[i + 1].op = "add"
          /\ DateOf(opLog[i + 1].ts) = DateOf(opLog[i].ts)
          /\ ~opLog[i + 1].openFailed /\ ~opLog[i + 1].writeFailed)
         => opLog[i + 1].wrote

HasDataRow(d) == \E i \in 1..Len(files[d].lines) : ~files[d].lines[i].hdr

C15_RowIsRoutedByItsDate ==
  /\ \A d \in Dates : \A i \in 1..Len(files[d].lines) :
       ~files[d].lines[i].hdr => DateOf(files[d].lines[i].timestamp) = d
  /\ open_handles = {file_handle} \ {NoHandle}
  /\ \A i \in DOMAIN opLog :
       LET e == opLog[i]
       IN e.op = "add" =>
            /\ e.wrote => e.handle = DateOf(e.ts)
            /\ (e.before # NoHandle /\ e.before # DateOf(e.ts)) =>
                 IF e.openFailed THEN e.handle = NoHandle
                 ELSE e.handle = DateOf(e.ts) /\ (e.wrote \/ e.writeFailed)

\* two samples of different dates, each written through a handle of its date
C15_Witness ==
  /\ Len(opLog) >= 2
  /\ opLog[1].op = "add" /\ opLog[1].wrote
  /\ opLog[2].op = "add" /\ opLog[2].wrote
  /\ opLog[2].before = opLog[1].handle
  /\ opLog[2].handle # opLog[1].handle
  /\ HasDataRow(opLog[1].handle) /\ HasDataRow(opLog[2].handle)

AddEntries == SelectSeq(opLog, LAMBDA e : e.op = "add")

ValueOf(result) == IF result.alias THEN data_queue ELSE result.items

ReadEntries == {i \in DOMAIN opLog : opLog[i].op \in {"all", "recent"}}

Recent(i) ==
  {k \in DOMAIN data_queue :
     data_queue[k].timestamp * SecondsPerTick
       >= opLog[i].ts * SecondsPerTick - opLog[i].minutes * 60}

\* C20: get_recent_data(minutes) returns the window's samples whose
\* timestamp is at least now - minutes * 60, all of them and no other, in
\* the window's order.
C20_RecentReturnsSamplesFromCutoffOn ==
  (opLog # <<>> /\ Last(opLog).op = "recent") =>
     LET r == Last(opLog).result.items
     IN /\ IsSubSeq(r, data_queue)
        /\ Len(r) = Cardinality(Recent(Len(opLog)))
        /\ \A k \in DOMAIN r :
             \E j \in Recent(Len(opLog)) : data_queue[j] = r[k]

\* an older sample omitted, a sample exactly at the cutoff included
C20_Witness ==
  /\ Len(opLog) = 3
  /\ opLog[3].op = "recent" /\ opLog[3].minutes = 720
  /\ Len(data_queue) = 2
  /\ data_queue[1].timestamp = opLog[3].ts - 2
  /\ data_queue[2].timestamp = opLog[3].ts - 1
  /\ opLog[3].result.items = <<data_queue[2]>>

\* the next step of t reads or changes the window's sequence
Touches(t) == tpc[t] \in {"append", "read_copy", "clear_queue"}

\* C17: a thread touches the window's sequence only while it holds the
\* lock, so no two threads touch it at the same time; calculate_stats runs
\* on a new list without the lock, and an add_heart_rate waiting for the
\* lock beside it can take it.
C17_WindowAccessIsExclusive ==
  /\ \A t \in Threads : Touches(t) => data_lock = t
  /\ \A t, u \in Threads : (Touches(t) /\ Touches(u)) => t = u
  /\ \A t \in Threads :
       tpc[t] = "calc" => data_lock # t /\ ~tloc[t].result.alias
  /\ \A t, u \in Threads :
       (/\ tpc[t] = "calc" /\ tpc[u] = "add_lock"
        /\ \A v \in Threads \ {t, u} : data_lock # v)
         => ENABLED AddLock(u)

\* one thread computes statistics of a sample while the other, holding
\* the lock, appends to the window
C17_Witness ==
  \E t, u \in Threads :
    /\ tpc[t] = "calc" /\ Len(tloc[t].result.items) = 1
    /\ tpc[u] = "append" /\ data_lock = u

\* C18: no thread closed, replaced or wrote through the log handle while
\* another thread was inside add_heart_rate between its date check and its
\* row write, and no row was written to a closed handle or to the file of
\* another date.
C18_LogHandleHasOneUser ==
  /\ ~handleRace.interfered
  /\ ~handleRace.closedWrite
  /\ ~handleRace.misrouted

\* the calculate_stats calls calcLog holds
StatsCalls == {calcLog[i] : i \in {k \in 1..Len(calcLog) : calcLog[k].op = "calculate_stats"}}

\* C21: calculate_stats of an empty list returns the empty dict; of a list
\* of one sample it returns std_dev 0 and no trend key; and the keys
\* trend_slope and trend are in the result exactly when the list has at
\* least 10 samples.
C21_EmptySingleAndTrendPresence ==
  \A e \in StatsCalls :
    /\ e.data_points = <<>> => e.result.keys = {} /\ e.result = NoStats
    /\ Len(e.data_points) = 1 =>
         "std_dev" \in e.result.keys /\ e.result.std_dev = 0
    /\ Len(e.data_points) >= 10 <=> TrendKeys \subseteq e.result.keys
    /\ Len(e.data_points) < 10 <=> TrendKeys \cap e.result.keys = {}

C21_Witness ==
  \E e \in StatsCalls :
    Len(e.data_points) = 10 /\ TrendKeys \subseteq e.result.keys

\* 10 * sum(i * y_i) - 45 * sum(y_i) over the last 10 values y_0 .. y_9 of a
\* list of at least 10: the slope is this number divided by 825
SlopeNumerator(values) ==
  LET y == Suffix(values, 10)
  IN 10 * Sum([i \in 1..10 |-> (i - 1) * y[i]]) - 45 * Sum(y)

\* C22 as stated: for a list of at least 10 samples the reported trend_slope
\* is exactly (10 * sum(i * y_i) - 45 * sum(y_i)) / 825 over the last 10
\* values (trend_slope counts thousandths), and 60, 62, ..., 78 give 2.0
\* and the label rising.
C22_SlopeIsExactLeastSquares ==
  \A e \in StatsCalls :
    Len(e.data_points) >= 10 =>
      /\ 825 * e.result.trend_slope = 1000 * SlopeNumerator(HeartRatesOf(e.data_points))
      /\ HeartRatesOf(e.data_points) = Climb =>
           e.result.trend_slope = 2000 /\ e.result.trend = "rising"

\* C22, amended: for a list of at least 10 samples the reported trend_slope
\* is (10 * sum(i * y_i) - 45 * sum(y_i)) / 825 over the last 10 values
\* rounded to 3 decimals, that is the thousandth nearest to it; 60, 62, ...,
\* 78 give 2.0 and the label rising, with earlier samples in front or not.
C22_SlopeIsRoundedLeastSquares ==
  \A e \in StatsCalls :
    Len(e.data_points) >= 10 =>
      LET num == SlopeNumerator(HeartRatesOf(e.data_points))
          diff == 825 * e.result.trend_slope - 1000 * num
      IN /\ 2 * diff <= 825 /\ 2 * diff >= -825
         /\ Suffix(HeartRatesOf(e.data_points), 10) = Climb =>
              e.result.trend_slope = 2000 /\ e.result.trend = "rising"

C22_Witness ==
  \E e \in StatsCalls :
    /\ Len(e.data_points) = 12
    /\ Suffix(HeartRatesOf(e.data_points), 10) = Climb
    /\ e.result.trend_slope = 2000

\* the _interpret_trend calls calcLog holds
TrendCalls == {calcLog[i] : i \in {k \in 1..Len(calcLog) : calcLog[k].op = "_interpret_trend"}}

\* the class of the slope num / den, den > 0, by the thresholds in order
TrendClass(num, den) ==
  CASE 2 * num > den -> "rising"
    [] 2 * num < 0 - den -> "falling"
    [] 10 * num > den /\ 2 * num <= den -> "slowly rising"
    [] 10 * num < 0 - den /\ 2 * num >= 0 - den -> "slowly falling"
    [] 10 * num <= den /\ 10 * num >= 0 - den -> "stable"

\* C23: _interpret_trend gives every slope exactly one label: rising above
\* 0.5, falling below -0.5, otherwise slowly rising above 0.1, slowly
\* falling below -0.1, and stable from -0.1 to 0.1; 0.5 itself is slowly
\* rising, -0.5 slowly falling, 0.1 and -0.1 stable. The label in the
\* result of calculate_stats is the label of the slope of the last 10 values.
C23_TrendLabelClassifiesSlope ==
  /\ \A e \in TrendCalls :
       /\ e.trend = TrendClass(e.slope.num, e.slope.den)
       /\ e.slope = Fraction(10, 20) => e.trend = "slowly rising"
       /\ e.slope = Fraction(-10, 20) => e.trend = "slowly falling"
       /\ e.slope \in {Fraction(2, 20), Fraction(-2, 20)} => e.trend = "stable"
  /\ \A e \in StatsCalls :
       Len(e.data_points) >= 10 =>
         e.result.trend = TrendClass(SlopeNumerator(HeartRatesOf(e.data_points)), 825)

C23_Witness ==
  \E e \in TrendCalls : e.slope = Fraction(10, 20) /\ e.trend = "slowly rising"

\* the number of values of a list from lo to hi
CountIn(values, lo, hi) == Cardinality({i \in 1..Len(values) : lo <= values[i] /\ values[i] <= hi})

OnePerBucket == [very_low |-> 1, low |-> 1, normal |-> 1, elevated |-> 1, high |-> 1]

\* every value is counted in the bucket of its range, and in no other
BucketsPartition(e) ==
  LET values == HeartRatesOf(e.data_points)
      ranges == e.result.ranges
  IN /\ ranges.very_low = CountIn(values, -1000, 49)
     /\ ranges.low = CountIn(values, 50, 59)
     /\ ranges.normal = CountIn(values, 60, 99)
     /\ ranges.elevated = CountIn(values, 100, 139)
     /\ ranges.high = CountIn(values, 140, 1000)
     /\ ranges.very_low + ranges.low + ranges.normal + ranges.elevated + ranges.high
          = e.result.count

\* C24 as stated: the five buckets very_low (< 50), low (50..59), normal
\* (60..99), elevated (100..139) and high (>= 140) count every value exactly
\* once, so they sum to count, and 50, 55, 65, 105, 145 give one per bucket.
C24_BucketsPartitionAndExample ==
  \A e \in StatsCalls :
    e.data_points # <<>> =>
      /\ BucketsPartition(e)
      /\ HeartRatesOf(e.data_points) = <<50, 55, 65, 105, 145>> =>
           e.result.ranges = OnePerBucket

\* C24, amended: the five buckets count every value exactly once, so they
\* sum to count; 50 is in low, so 50, 55, 65, 105, 145 give no very_low, two
\* low and one each of the others, and 45, 55, 65, 105, 145 give one per
\* bucket.
C24_BucketsPartition ==
  \A e \in StatsCalls :
    e.data_points # <<>> =>
      /\ BucketsPartition(e)
      /\ HeartRatesOf(e.data_points) = <<50, 55, 65, 105, 145>> =>
           e.result.ranges = [OnePerBucket EXCEPT !.very_low = 0, !.low = 2]
      /\ HeartRatesOf(e.data_points) = <<45, 55, 65, 105, 145>> =>
           e.result.ranges = OnePerBucket

C24_Witness ==
  \E e \in StatsCalls :
    /\ HeartRatesOf(e.data_points) = <<50, 55, 65, 105, 145>>
    /\ e.result.ranges.low = 2
    /\ e.result.count = 5

\* m stands at index k (from 0) of the values sorted ascending
AtSortedIndex(values, m, k) ==
  /\ \E i \in 1..Len(values) : values[i] = m
  /\ Cardinality({i \in 1..Len(values) : values[i] < m}) <= k
  /\ Cardinality({i \in 1..Len(values) : values[i] <= m}) >= k + 1

\* C25: for a non-empty list calculate_stats reports count as the number of
\* samples, min and max as the smallest and the largest value, and median
\* as the value at index count // 2 of the values sorted ascending: the
\* upper middle value for an even count, never a mean of two values.
C25_CountMinMaxMedian ==
  \A e \in StatsCalls :
    e.data_points # <<>> =>
      LET values == HeartRatesOf(e.data_points)
          r == e.result
      IN /\ r.count = Len(values)
         /\ AtSortedIndex(values, r.min, 0)
         /\ AtSortedIndex(values, r.max, Len(values) - 1)
         /\ AtSortedIndex(values, r.median, Len(values) \div 2)
         /\ {"count", "min", "max", "median"} \subseteq r.keys

C25_Witness ==
  \E e \in StatsCalls :
    /\ HeartRatesOf(e.data_points) = <<62, 60>>
    /\ e.result.median = 62 /\ e.result.min = 60 /\ e.result.count = 2

\* the square root of the sample variance of the values, to the nearest
\* hundredth: the sum of the squared deviations from the mean of n values
\* is (n * sum(v * v) - sum(v) ** 2) / n
SampleStdDev(values) ==
  LET n == Len(values)
      squares == Sum([i \in 1..n |-> values[i] * values[i]])
  IN RoundSqrt(n * squares - Sum(values) * Sum(values), 10000, n * (n - 1))

\* C26: for a list of more than one sample the reported std_dev is the
\* square root of the sample variance of the values (the squared deviations
\* from their mean, summed and divided by count - 1), to the two decimals
\* reported; for one sample it is 0.
C26_StdDevIsSampleStdDev ==
  \A e \in StatsCalls :
    /\ Len(e.data_points) > 1 =>
         e.result.std_dev = SampleStdDev(HeartRatesOf(e.data_points))
    /\ Len(e.data_points) = 1 => e.result.std_dev = 0

JoinSent == pc = "join" /\ pc' = "recv"

\* the step in which line 151 returns: a heartbeat frame is on the wire
HeartbeatSent == hb = "sending" /\ hb' = "sleeping"

\* C28: every invocation of websocket_handler fetches a key before it opens
\* its socket and sends a join frame on that socket before anything else.
\* A join frame goes to a socket whose key is the one fetched last and is
\* newer than the key of the frame sent before it, in a later session; a
\* heartbeat follows a frame of its own session and socket; so no key opens
\* two sockets, and every session that sends or receives has sent its join.
C28_FreshKeyAndJoinPerSession ==
  /\ [][JoinSent => /\ lastSent'.event = "phx_join"
                    /\ lastSent'.key = keySeq
                    /\ lastSent'.key > lastSent.key
                    /\ lastSent'.owner = session
                    /\ lastSent'.owner > lastSent.owner]_vars
  /\ [][HeartbeatSent => /\ lastSent'.event = "heartbeat"
                         /\ lastSent'.key = lastSent.key
                         /\ lastSent'.owner = lastSent.owner]_vars
  /\ [](pc \in {"connect", "join"} => websocket_key = keySeq /\ lastSent.key < websocket_key)
  /\ [](pc \in {"recv", "await_hb"} =>
          /\ lastSent.owner = session
          /\ lastSent.key = websocket_key)
  /\ [](\A i \in 1..Len(frameLog) :
          frameLog[i].session = session => lastSent.owner = session)

C28_Witness ==
  /\ pc = "recv"
  /\ session = 2
  /\ lastSent.event = "phx_join" /\ lastSent.owner = 2 /\ lastSent.key = 2
  /\ exitKind \in {"returned", "read"}

\* C29: a failed fetch_websocket_key ends the invocation of
\* websocket_handler with the exception after one request: the stored key
\* stays as it was, no socket is opened and nothing is sent, and
\* websocket_loop sleeps its delay before the next attempt.
C29_FailedFetchEndsAttempt ==
  /\ [](nfetch = session)
  /\ [](exitKind = "fetch" /\ pc \in {"sleep", "start"}
          => sock = "none" /\ hb \in {"none", "done", "cancelled"})
  /\ [](exitKind = "fetch" /\ pc = "start" => delay = retry_delay)
  /\ [][session' # session /\ keySeq' = keySeq
          => /\ pc' = "sleep"
             /\ exitKind' = "fetch"
             /\ websocket_key' = websocket_key
             /\ nfetch' = nfetch + 1
             /\ sock' = sock /\ sock = "none"
             /\ lastSent' = lastSent
             /\ failures' = failures + 1]_vars

C29_Witness ==
  /\ exitKind = "fetch"
  /\ pc = "start"
  /\ delay = retry_delay
  /\ websocket_key # NoKey
  /\ websocket_key = keySeq
  /\ session = 2 /\ nfetch = 2

\* C30: the refs of the frames sent are strictly increasing in the order
\* they were sent, join frames and heartbeats of all sessions together:
\* every frame sent has a larger ref than the frame sent before it, and a
\* frame that is built and not yet sent has a larger ref than the last
\* frame sent and another ref than the other frame being built.
C30_RefsStrictlyIncrease ==
  /\ [][JoinSent \/ HeartbeatSent => lastSent'.ref > lastSent.ref]_vars
  /\ [](pc = "join" => lastSent.ref < join_message)
  /\ [](hb = "sending" => lastSent.ref < heartbeat_message)
  /\ [](pc = "join" /\ hb = "sending" => join_message # heartbeat_message)
  /\ [](lastSent.ref < message_ref)

C30_Witness ==
  /\ lastSent.event = "heartbeat" /\ lastSent.owner = 2
  /\ lastSent.ref = 4
  /\ hb = "sending" /\ heartbeat_message = 5

\* the step in which line 101 opens a connection
SocketOpened == sock # "open" /\ sock' = "open"

\* a session is active: its socket is not closed and released, or its
\* receive loop or its heartbeat task has not ended
SessionActive ==
  \/ sock # "none"
  \/ pc \in {"join", "recv", "await_hb"}
  \/ hb \in {"created", "sending", "sleeping"}

\* C31: at most one session is active at a time. A socket is opened only by
\* the handler at line 101 while no session is active: the socket of the
\* session before is closed and released, its receive loop was left and its
\* heartbeat task has ended. While the loop sleeps, fetches a key or
\* connects no session is active, and a heartbeat task that runs is the
\* task of the running session, on the socket of that session.
C31_OneActiveSession ==
  /\ [][SocketOpened => /\ pc = "connect" /\ pc' = "join"
                        /\ sock = "none"
                        /\ hb \in {"none", "done", "cancelled"}
                        /\ inbox' = <<>>]_vars
  /\ [](pc \in {"start", "sleep", "connect"} => ~SessionActive)
  /\ [](hb \in {"created", "sending", "sleeping"} =>
          hbOwner = session /\ lastSent.owner = session /\ sock # "none")

C31_Witness ==
  /\ pc = "join" /\ sock = "open"
  /\ session = 2
  /\ hbOwner = 1 /\ hb \in {"done", "cancelled"}
  /\ exitKind \in {"returned", "read"}

\* C35: ws_connected is True only while a session's socket is open: while
\* websocket_loop sleeps its retry delay and while the handler fetches a
\* key the flag is False, however the session before ended, a failed send
\* of the join frame included.
C35_ConnectedOnlyWhileSessionOpen ==
  pc \in {"sleep", "start"} => ~ws_connected

\* the step in which line 118 creates the heartbeat task
HeartbeatCreated == hb' = "created" /\ hb # "created"

\* the step in which the receive loop handles a frame
FrameHandled == frameLog' # frameLog

\* C34: the join frame is the first frame a session sends and the only join
\* frame it sends: it follows a frame of an earlier session (or none), and
\* every other frame sent is a heartbeat of the session whose join frame
\* was sent before it. The heartbeat task is created only in the step in
\* which the send of the join frame returns, a frame is handled only in a
\* session that has sent its join frame, and the handler goes from the send
\* to the heartbeat task and the receive loop without receiving anything:
\* it awaits no reply to the join frame.
C34_JoinFirstThenHeartbeat ==
  /\ [][JoinSent => /\ lastSent'.event = "phx_join"
                    /\ lastSent'.owner = session
                    /\ lastSent.owner < session
                    /\ HeartbeatCreated /\ hbOwner' = session
                    /\ inbox' = inbox /\ nframes' = nframes
                    /\ ~FrameHandled]_vars
  /\ [][lastSent' # lastSent =>
          \/ JoinSent
          \/ /\ HeartbeatSent
             /\ lastSent'.event = "heartbeat"
             /\ lastSent'.owner = lastSent.owner
             /\ lastSent'.owner = hbOwner]_vars
  /\ [][HeartbeatCreated => JoinSent]_vars
  /\ [][FrameHandled => pc = "recv" /\ lastSent.owner = session]_vars
  /\ [](pc \in {"connect", "join"} => lastSent.owner < session)
  /\ [](hb \in {"created", "sending", "sleeping"} => lastSent.owner = hbOwner)

\* a second session has sent its join frame and a heartbeat, and has
\* received no frame yet
C34_Witness ==
  /\ pc = "recv" /\ session = 2
  /\ lastSent.event = "heartbeat" /\ lastSent.owner = 2
  /\ hb = "sleeping"
  /\ inbox = <<>>
  /\ \A i \in 1..Len(frameLog) : frameLog[i].session = 1

\* json.loads or the callback raised while the frame was handled
RaisedInHandling(e) == e.f.shape = "nonjson" \/ e.out = "error"

\* C36: an exception raised while one frame is handled, by json.loads or by
\* the callback, is caught in the body of the receive loop. The step that
\* handles a frame stays in the loop of the same session with no exception
\* in flight, leaves the heartbeat task and the socket as they were and
\* takes exactly that frame off the queue; no session ends with an
\* exception of frame handling; and a sample frame that follows the failed
\* frame on the same session is dispatched.
C36_FrameErrorStaysInLoop ==
  /\ [][FrameHandled =>
          /\ Len(frameLog') = Len(frameLog) + 1
          /\ Last(frameLog').out \in {"ignored", "called", "error"}
          /\ pc = "recv" /\ pc' = "recv"
          /\ exc' = "none"
          /\ session' = session
          /\ hb' = hb /\ hbCancel' = hbCancel
          /\ sock' = sock /\ ws_connected' = ws_connected
          /\ inbox' = Tail(inbox)]_vars
  /\ [](exitKind # "decode")
  /\ [](\A i \in DOMAIN frameLog :
          (/\ RaisedInHandling(frameLog[i])
           /\ i < Len(frameLog)
           /\ IsPlainSample(frameLog[i + 1])
           /\ frameLog[i + 1].session = frameLog[i].session)
            => frameLog[i + 1].out = "called" /\ frameLog[i + 1].changed)

\* the callback raised on the first frame (int(None): TypeError) and the
\* sample after it was dispatched, the heartbeat task still running
C36_Witness ==
  /\ Len(frameLog) = 2
  /\ frameLog[1].out = "error"
  /\ frameLog[1].f = Frame("hr", NullV)
  /\ IsPlainSample(frameLog[2])
  /\ frameLog[2].session = frameLog[1].session
  /\ frameLog[2].out = "called"
  /\ Len(added) = 1
  /\ hb = "sleeping" /\ pc = "recv" /\ sock = "open"

\* call i was an add whose rotation failed to open the file of its date
RotationFailed(i) == opLog[i].op = "add" /\ opLog[i].openFailed

\* the calls after call i up to call j were not clear_data, and the adds
\* among them carried samples of the date of call i
SameDateSince(i, j) ==
  \A k \in (i + 1)..j :
    /\ opLog[k].op # "clear"
    /\ opLog[k].op = "add" => DateOf(opLog[k].ts) = DateOf(opLog[i].ts)

\* C37: an add whose rotation could not open the file of the sample's date
\* leaves no handle, bound to that date, the old handle closed. Every add
\* of a sample of that date after it opens nothing (even where an open
\* would succeed), writes no row and still puts its sample in the window;
\* the first add of a sample of another date rotates again and, unless its
\* open fails too, writes its row through a handle of its date.
C37_FailedRotationStaysUnbound ==
  \A i \in DOMAIN opLog :
    RotationFailed(i) =>
      /\ opLog[i].handle = NoHandle /\ ~opLog[i].wrote /\ ~opLog[i].raised
      /\ \A j \in (i + 1)..Len(opLog) :
           SameDateSince(i, j) =>
             /\ opLog[j].before = NoHandle /\ opLog[j].handle = NoHandle
             /\ ~opLog[j].wrote /\ ~opLog[j].openFailed /\ ~opLog[j].raised
      /\ \A j \in (i + 1)..Len(opLog) :
           (/\ SameDateSince(i, j - 1)
            /\ opLog[j].op = "add"
            /\ DateOf(opLog[j].ts) # DateOf(opLog[i].ts)
            /\ ~opLog[j].openFailed)
             => /\ opLog[j].handle = DateOf(opLog[j].ts)
                /\ opLog[j].wrote \/ opLog[j].writeFailed
      /\ SameDateSince(i, Len(opLog)) =>
           /\ current_date = DateOf(opLog[i].ts)
           /\ file_handle = NoHandle
           /\ open_handles = {}
           /\ Last(opLog).op = "add" =>
                Last(data_queue) = DataPoint(Last(opLog).ts, Last(opLog).hr)
      /\ Len(added) = Len(AddEntries)

\* a failed rotation, a sample of the same date that was not written, then
\* a sample of another date that was
C37_Witness ==
  /\ Len(opLog) = 3
  /\ RotationFailed(1) /\ opLog[1].before # NoHandle
  /\ opLog[2].op = "add" /\ DateOf(opLog[2].ts) = DateOf(opLog[1].ts)
  /\ ~opLog[2].wrote /\ opLog[2].handle = NoHandle
  /\ opLog[3].op = "add" /\ DateOf(opLog[3].ts) # DateOf(opLog[1].ts)
  /\ opLog[3].wrote
  /\ Len(added) = 3

\* the step of a call that left another handle bound than it found
HandleRebound == file_handle' # file_handle

\* C38: at most one file is open at any time, and an open file is the one
\* the logger's handle refers to, the file of the date the logger is bound
\* to. A call that binds another handle (a rotation of add_heart_rate, or
\* clear_data) leaves the handle it found closed and at most the new one
\* open; a call that binds none leaves open what was open.
C38_OneHandleOfBoundDate ==
  /\ [](Cardinality(open_handles) <= 1)
  /\ [](\A d \in open_handles : d = file_handle /\ d = current_date /\ files[d].exists)
  /\ [](file_handle # NoHandle => open_handles = {file_handle})
  /\ [][HandleRebound => /\ file_handle \notin open_handles'
                         /\ open_handles' \subseteq {file_handle'}
                         /\ file_handle' \in {NoHandle, current_date'}]_vars
  /\ [][~HandleRebound => open_handles' = open_handles]_vars

\* a rotation that closed the handle of one date and opened that of the
\* next, then a clear_data that closed that one
C38_Witness ==
  /\ Len(opLog) = 3
  /\ opLog[1].op = "add" /\ opLog[1].wrote
  /\ opLog[2].op = "add" /\ opLog[2].wrote
  /\ opLog[2].before = opLog[1].handle /\ opLog[2].before # NoHandle
  /\ opLog[2].handle # opLog[2].before
  /\ opLog[3].op = "clear" /\ opLog[3].before = opLog[2].handle
  /\ open_handles = {} /\ file_handle = NoHandle

\* the number a label shows
ShownValue(label) == PyIntOfStr(label).v

\* C39: what the consumer shows is derived from the history of the last
\* max_history_size (100) values it accepted. The history never holds more
\* than 100 values; a call that changes it appends the value shown as
\* current and drops the oldest value when there would be 101; the maximum
\* and the minimum shown are the largest and the smallest value of the
\* history, the current value is its newest one, and
\* min <= current <= max.
C39_ExtremesOfBoundedHistory ==
  /\ [](Len(heart_rate_history) <= max_history_size)
  /\ [](heart_rate_history = <<>> =>
          current = Dashes /\ max_hr = Dashes /\ min_hr = Dashes)
  /\ [](heart_rate_history # <<>> =>
          /\ PyIntOfStr(current).ok /\ PyIntOfStr(max_hr).ok /\ PyIntOfStr(min_hr).ok
          /\ ShownValue(current) = Last(heart_rate_history)
          /\ \E i \in DOMAIN heart_rate_history :
               heart_rate_history[i] = ShownValue(max_hr)
          /\ \E i \in DOMAIN heart_rate_history :
               heart_rate_history[i] = ShownValue(min_hr)
          /\ \A i \in DOMAIN heart_rate_history :
               /\ ShownValue(min_hr) <= heart_rate_history[i]
               /\ heart_rate_history[i] <= ShownValue(max_hr)
          /\ ShownValue(min_hr) <= ShownValue(current)
          /\ ShownValue(current) <= ShownValue(max_hr))
  /\ [][heart_rate_history' # heart_rate_history =>
          LET all == Append(heart_rate_history, ShownValue(current'))
          IN heart_rate_history' = Suffix(all, Min(Len(all), max_history_size))]_vars

\* the history is full and the extreme that was its oldest value has left
\* it: the maximum and the minimum shown no longer count it
C39_Witness ==
  /\ Len(heart_rate_history) = max_history_size
  /\ nupdates = 2
  /\ current = <<"7", "2">>
  /\ max_hr = <<"7", "2">>
  /\ min_hr = <<"7", "0">>
  /\ heart_rate_history[max_history_size - 1] = 72

\* C32: the configuration is checked before the thread of the connection
\* is started: when the process has exited because HYPERATE_URL is unset or
\* holds the placeholder text, the websocket_loop thread was never started,
\* no key was fetched and no socket was opened.
C32_ConfigCheckedBeforeThreadStarts ==
  main_pc = "exit" =>
    /\ ~ws_thread
    /\ nfetch = 0 /\ session = 0
    /\ sock = "none" /\ lastSent.event = "none"

\* where in url the parameters named id start: "id=" after "?" or "&"
IdParameterAt(url) ==
  {i \in 2..(Len(url) - 2) : SubSeq(url, i, i + 2) = IdEquals /\ url[i - 1] \in {"?", "&"}}

\* the characters of s before its first "&" or "#"
RECURSIVE UpToDelimiter(_)
UpToDelimiter(s) ==
  IF s = <<>> \/ Head(s) \in {"&", "#"} THEN <<>>
  ELSE <<Head(s)>> \o UpToDelimiter(Tail(s))

\* the value of the first parameter named id
IdParameterValue(url) ==
  LET i == CHOOSE k \in IdParameterAt(url) : \A j \in IdParameterAt(url) : k <= j
  IN UpToDelimiter(SubSeq(url, i + 3, Len(url)))

\* the channel the address names
ChannelOf(url) ==
  IF IdParameterAt(url) # {} THEN IdParameterValue(url) ELSE InternalTesting

\* C33: for every address the join frame is well-formed. Once start() has
\* derived it, the channel identifier is not empty and is the value of the
\* address's id parameter, cut at the next "&" or "#", or "internal-testing"
\* when the address has no id parameter; the topic of every join frame is
\* "hr:" followed by that identifier, the same in every session.
C33_JoinTopicNamesTheChannel ==
  /\ channel_id # NoChannel =>
       channel_id # <<>> /\ channel_id = ChannelOf(HYPERATE_URL)
  /\ lastSent.event = "phx_join" =>
       lastSent.topic = JoinTopic(ChannelOf(HYPERATE_URL))

\* what Python's extract_channel_id returns for addresses tried by hand
SanityChannel ==
  /\ extract_channel_id(Host \o <<"a", "b">>) = InternalTesting
  /\ extract_channel_id(Host \o Placeholder) = InternalTesting
  /\ extract_channel_id(RunningUrl) = <<"a", "b">>
  /\ extract_channel_id(Host \o <<"?">> \o IdEquals) = <<>>
  /\ extract_channel_id(Host \o <<"?">> \o IdEquals \o <<"&", "y", "=", "2">>) = <<>>
  /\ extract_channel_id(Host \o <<"?">> \o IdEquals \o <<"#", "f">>) = <<>>
  /\ extract_channel_id(Host \o <<"?", "u">> \o IdEquals \o <<"a", "b">>) = <<"a", "b">>
  /\ extract_channel_id(Host \o <<"?", "x", "=", "1", "&">> \o IdEquals
                          \o <<"a", "b", "#", "f">>) = <<"a", "b">>
  /\ extract_channel_id(Host \o <<"?">> \o IdEquals \o Placeholder
                          \o <<"&", "y", "=", "2">>) = Placeholder
  /\ extract_channel_id(Host \o <<"?", "u">>) = InternalTesting
  /\ extract_channel_id(<<"h", "/", "?", "u">> \o IdEquals \o <<"7", "&">>
                          \o IdEquals \o <<"a", "b">>) = <<"7">>
  /\ extract_channel_id(Host \o <<"?">> \o IdEquals \o <<"a", "b", "&">>
                          \o IdEquals \o <<"c", "d">>) = <<"a", "b">>

\* the values Python prints for the lists tried by hand
SanityPython ==
  \A e \in StatsCalls :
    LET v == HeartRatesOf(e.data_points) r == e.result
    IN /\ v = Climb => r.avg = 690 /\ r.median = 70 /\ r.std_dev = 606
                         /\ r.trend_slope = 2000 /\ r.trend = "rising"
                         /\ r.duration_minutes = 9 * 7200
       /\ v = <<50, 55, 65, 105, 145>> =>
            r.avg = 840 /\ r.std_dev = 4037 /\ r.median = 65
              /\ r.ranges = [very_low |-> 0, low |-> 2, normal |-> 1, elevated |-> 1, high |-> 1]
       /\ v = <<60, 60, 62>> => r.std_dev = 116 /\ r.avg = 607
       /\ v = <<60, 60, 60, 61>> => r.avg = 602
       /\ v = Bump(5, 16) => r.trend_slope = 97 /\ r.trend = "stable" /\ r.std_dev = 506
       /\ v = Bump(5, 17) => r.trend_slope = 103 /\ r.trend = "slowly rising"
       /\ v = Bump(4, 83) => r.trend_slope = -503 /\ r.trend = "falling" /\ r.avg = 783
       /\ v = Climb \o <<100>> => r.trend_slope = 3091 /\ r.std_dev = 1097
====
